---- MODULE Spec2Model ----
(***************************************************************************)
(* Model of the Ushadow launcher's discovery engine                        *)
(* (launcher/src-tauri/src/commands/discovery.rs and the probes of         *)
(* prerequisites.rs it calls).                                             *)
(*                                                                         *)
(* Text is modelled as TLA+ strings (sequences of characters): the string  *)
(* operators below are the Rust std operations the code calls, computed    *)
(* character by character.  Option<T> is modelled as a sequence: <<>> is   *)
(* None and <<v>> is Some(v).                                              *)
(***************************************************************************)
EXTENDS Integers, Sequences, FiniteSets, TLC

\* ------------------------------------------------------------------------
\* Rust std string operations used by the code
\* ------------------------------------------------------------------------

None == <<>>

Some(v) == <<v>>

CharAt(s, i) == SubSeq(s, i, i)

\* str::starts_with
StartsWith(s, p) == Len(p) <= Len(s) /\ SubSeq(s, 1, Len(p)) = p

\* str::ends_with
EndsWith(s, p) == Len(p) <= Len(s) /\ SubSeq(s, Len(s) - Len(p) + 1, Len(s)) = p

\* str::find for a non-empty pattern: the 1-based index of the first
\* occurrence, 0 when there is none
Find(s, p) ==
    LET hits == {i \in 1..(Len(s) - Len(p) + 1) : SubSeq(s, i, i + Len(p) - 1) = p}
    IN  IF hits = {} THEN 0 ELSE CHOOSE i \in hits : \A j \in hits : i <= j

\* str::contains
Contains(s, p) == Find(s, p) # 0

\* str::split(pattern).collect(): always at least one part
RECURSIVE Split(_, _)
Split(s, d) ==
    LET i == Find(s, d)
    IN  IF i = 0 THEN <<s>>
        ELSE <<SubSeq(s, 1, i - 1)>> \o Split(SubSeq(s, i + Len(d), Len(s)), d)

RECURSIVE TrimStart(_)
TrimStart(s) ==
    IF Len(s) > 0 /\ CharAt(s, 1) = " " THEN TrimStart(SubSeq(s, 2, Len(s))) ELSE s

RECURSIVE TrimEnd(_)
TrimEnd(s) ==
    IF Len(s) > 0 /\ CharAt(s, Len(s)) = " " THEN TrimEnd(SubSeq(s, 1, Len(s) - 1)) ELSE s

\* str::trim
Trim(s) == TrimEnd(TrimStart(s))

\* str::trim_start_matches(p): removes the prefix p as often as it matches
RECURSIVE TrimStartMatches(_, _)
TrimStartMatches(s, p) ==
    IF StartsWith(s, p) THEN TrimStartMatches(SubSeq(s, Len(p) + 1, Len(s)), p) ELSE s

\* str::trim_end_matches(p): removes the suffix p as often as it matches
RECURSIVE TrimEndMatches(_, _)
TrimEndMatches(s, p) ==
    IF EndsWith(s, p) THEN TrimEndMatches(SubSeq(s, 1, Len(s) - Len(p)), p) ELSE s

Digits == <<"0", "1", "2", "3", "4", "5", "6", "7", "8", "9">>

IsDigit(c) == \E d \in 1..10 : Digits[d] = c

DigitVal(c) == (CHOOSE d \in 1..10 : Digits[d] = c) - 1

RECURSIVE DecimalValue(_)
DecimalValue(s) ==
    IF Len(s) = 0 THEN 0
    ELSE 10 * DecimalValue(SubSeq(s, 1, Len(s) - 1)) + DigitVal(CharAt(s, Len(s)))

\* str::parse::<u16>(): an optional leading "+", then one or more decimal
\* digits whose value fits 16 bits; anything else is an Err (None here)
ParseU16(s) ==
    LET body == IF StartsWith(s, "+") THEN SubSeq(s, 2, Len(s)) ELSE s
    IN  IF Len(body) = 0 THEN None
        ELSE IF \E i \in 1..Len(body) : ~IsDigit(CharAt(body, i)) THEN None
        ELSE IF DecimalValue(body) > 65535 THEN None
        ELSE Some(DecimalValue(body))

\* format!("{}", n) for an unsigned integer
RECURSIVE FmtInt(_)
FmtInt(n) ==
    IF n < 10 THEN Digits[n + 1] ELSE FmtInt(n \div 10) \o Digits[(n % 10) + 1]

\* Iterator::last()
Last(seq) == seq[Len(seq)]

\* ------------------------------------------------------------------------
\* discovery.rs: extract_port
\* ------------------------------------------------------------------------

\* One iteration of the loop of extract_port: the port the comma-segment
\* decodes to, None when it does not parse
PortOfSegment(part) ==
    LET mapping == Split(part, "->")[1]
        port_str == Last(Split(mapping, ":"))
    IN  ParseU16(Trim(port_str))

\* The loop of extract_port with the mutation of not returning at the first
\* segment that parses: the last one that parses wins
RECURSIVE LastParsed(_)
LastParsed(parts) ==
    IF Len(parts) = 0 THEN None
    ELSE IF LastParsed(Tail(parts)) # None THEN LastParsed(Tail(parts))
    ELSE PortOfSegment(Head(parts))

\* Lines 143-152: the loop over the comma-segments, returning at the first
\* one that parses
RECURSIVE FirstParsed(_)
FirstParsed(parts) ==
    IF Len(parts) = 0 THEN None
    ELSE IF PortOfSegment(Head(parts)) # None THEN PortOfSegment(Head(parts))
    ELSE FirstParsed(Tail(parts))

extract_port(ports_str) == FirstParsed(Split(ports_str, ","))

\* ------------------------------------------------------------------------
\* discovery.rs: record parsing and classification (the loop body of
\* discover_environments)
\* ------------------------------------------------------------------------

INFRA_PATTERNS ==
    << <<"mongo", "MongoDB">>, <<"redis", "Redis">>,
       <<"neo4j", "Neo4j">>, <<"qdrant", "Qdrant">> >>

\* Lines 50-64: one line of the `docker ps` output as a container record;
\* None for a line the loop skips (blank, or fewer than two fields)
ParseLine(raw) ==
    LET line == Trim(raw)
        parts == Split(line, "|")
    IN  IF line = "" THEN None
        ELSE IF Len(parts) < 2 THEN None
        ELSE Some([name       |-> Trim(parts[1]),
                   status     |-> Trim(parts[2]),
                   ports      |-> IF Len(parts) > 2 THEN Some(Trim(parts[3])) ELSE None,
                   is_running |-> Contains(Trim(parts[2]), "Up")])

\* Line 68 matching the key anywhere in the name
InfraMatchesContains(name, pattern) == Contains(name, pattern)

\* Line 68: the infrastructure rule
InfraMatches(name, pattern) ==
    \/ name = pattern
    \/ EndsWith(name, "-" \o pattern)
    \/ EndsWith(name, "-" \o pattern \o "-1")

\* Lines 69-77 with the mutation a last-wins bug would make: a later
\* container of a key replaces the entry of the earlier one
InfraInsertLastWins(acc, rec, k) ==
    LET pattern == INFRA_PATTERNS[k][1]
        entry == [name         |-> pattern,
                  display_name |-> INFRA_PATTERNS[k][2],
                  running      |-> rec.is_running,
                  ports        |-> rec.ports]
    IN  [acc EXCEPT
           !.found_infra = @ \cup {pattern},
           !.infrastructure =
               IF pattern \in acc.found_infra
               THEN [i \in 1..Len(@) |-> IF @[i].name = pattern THEN entry ELSE @[i]]
               ELSE Append(@, entry)]

\* Lines 69-77: the first container of a key makes its InfraService; the
\* found_infra set makes every later one a no-op
InfraInsert(acc, rec, k) ==
    LET pattern == INFRA_PATTERNS[k][1]
    IN  IF pattern \in acc.found_infra THEN acc
        ELSE [acc EXCEPT
                !.found_infra = @ \cup {pattern},
                !.infrastructure =
                    Append(@, [name         |-> pattern,
                               display_name |-> INFRA_PATTERNS[k][2],
                               running      |-> rec.is_running,
                               ports        |-> rec.ports])]

\* Lines 67-79: the loop over INFRA_PATTERNS for one record, from pattern k on
RECURSIVE InfraLoop(_, _, _)
InfraLoop(acc, rec, k) ==
    IF k > Len(INFRA_PATTERNS) THEN acc
    ELSE InfraLoop(IF InfraMatches(rec.name, INFRA_PATTERNS[k][1])
                   THEN InfraInsert(acc, rec, k) ELSE acc,
                   rec, k + 1)

\* Line 82: the environment-backend rule
IsEnvBackend(name) ==
    /\ Contains(name, "backend")
    /\ StartsWith(name, "ushadow")
    /\ ~Contains(name, "chronicle")

\* Lines 83-89: the environment name of a backend container
EnvName(name) ==
    IF name = "ushadow-backend" THEN "default"
    ELSE TrimEndMatches(TrimStartMatches(name, "ushadow-"), "-backend")

\* Lines 91-97 without the is_running test
BackendPushNotRunning(env_backends, rec) ==
    IF rec.ports # None /\ extract_port(rec.ports[1]) # None
    THEN Append(env_backends, <<EnvName(rec.name), extract_port(rec.ports[1])[1]>>)
    ELSE env_backends

\* Lines 91-97: a backend record is pushed only with a ports field, a
\* decodable port and the Up status
BackendPush(env_backends, rec) ==
    IF rec.ports # None /\ extract_port(rec.ports[1]) # None /\ rec.is_running
    THEN Append(env_backends, <<EnvName(rec.name), extract_port(rec.ports[1])[1]>>)
    ELSE env_backends

\* Lines 50-99: the whole loop over stdout.lines()
RECURSIVE ParseLoop(_, _)
ParseLoop(lines, acc) ==
    IF Len(lines) = 0 THEN acc
    ELSE LET parsed == ParseLine(Head(lines))
         IN  IF parsed = None THEN ParseLoop(Tail(lines), acc)
             ELSE LET rec == parsed[1]
                      withInfra == InfraLoop(acc, rec, 1)
                      withEnv ==
                          IF IsEnvBackend(rec.name)
                          THEN [withInfra EXCEPT
                                  !.env_backends = BackendPush(@, rec)]
                          ELSE withInfra
                  IN  ParseLoop(Tail(lines), withEnv)

\* Lines 45-47: the three accumulators before the loop
EmptyAcc == [infrastructure |-> <<>>, env_backends |-> <<>>, found_infra |-> {}]

\* ------------------------------------------------------------------------
\* discovery.rs: get_tailscale_url and the environment assembly
\* ------------------------------------------------------------------------

\* Lines 171-180: the scan of the comma-separated pieces of the body
RECURSIVE ScanForUrl(_)
ScanForUrl(pieces) ==
    IF Len(pieces) = 0 THEN None
    ELSE LET line == Head(pieces)
             start == Find(line, "https://")
             rest == SubSeq(line, start, Len(line))
             end == Find(rest, "\"")
         IN  IF Contains(line, "ushadow_api_url") /\ start # 0 /\ end # 0
             THEN Some(SubSeq(rest, 1, end - 1))
             ELSE ScanForUrl(Tail(pieces))

\* Lines 156-183: curl is what the spawned probe did: spawned (or not),
\* exit_ok, stdout
get_tailscale_url(curl) ==
    IF ~curl.spawned THEN None
    ELSE IF ~curl.exit_ok THEN None
    ELSE ScanForUrl(Split(curl.stdout, ","))

\* Lines 108-112 without the lower bound: the u16 subtraction wraps
WebuiPortUnguarded(backend_port) == Some((backend_port - 5000) % 65536)

\* Lines 108-112
WebuiPort(backend_port) ==
    IF backend_port >= 8000 THEN Some(backend_port - 5000) ELSE None

\* Lines 114-118 as a build that always shows the backend port
LocalhostUrlBackendOnly(backend_port, webui_port) ==
    "http://localhost:" \o FmtInt(backend_port)

\* Lines 114-118
LocalhostUrl(backend_port, webui_port) ==
    IF webui_port # None
    THEN "http://localhost:" \o FmtInt(webui_port[1])
    ELSE "http://localhost:" \o FmtInt(backend_port)

\* Lines 104-129: one UshadowEnvironment
BuildEnvironment(env_name, backend_port, tailscale_url) ==
    [name             |-> env_name,
     color            |-> env_name,
     localhost_url    |-> LocalhostUrl(backend_port, WebuiPort(backend_port)),
     tailscale_url    |-> tailscale_url,
     backend_port     |-> backend_port,
     webui_port       |-> WebuiPort(backend_port),
     running          |-> TRUE,
     tailscale_active |-> tailscale_url # None]

\* ------------------------------------------------------------------------
\* prerequisites.rs: the probes discover_environments calls
\* ------------------------------------------------------------------------

\* check_docker outside mock mode, as <<installed, running>>.  where says how
\* the docker binary can be found: "none" (not installed), "path" (on the
\* PATH), "known" (only at one of the known install paths); up says whether
\* the daemon answers `docker info`.
check_docker(where, up) ==
    IF where = "none" THEN <<FALSE, FALSE>> ELSE <<TRUE, up>>

\* check_tailscale outside mock mode, as <<installed, connected>>
check_tailscale(installed, connected) ==
    IF ~installed THEN <<FALSE, FALSE>> ELSE <<TRUE, connected>>

\* discovery.rs line 21 with the daemon test dropped
DockerOkInstalledOnly(installed, running) == installed

\* discovery.rs line 21
DockerOk(installed, running) == installed /\ running

\* discovery.rs line 22
TailscaleOk(installed, connected) == installed /\ connected

\* ------------------------------------------------------------------------
\* Bounds and the inputs the environment can produce
\* ------------------------------------------------------------------------

\* The most lines one `docker ps` output has
MaxContainers == 2

\* The most comma-segments of a ports string given to extract_port
MaxSegments == 2

\* The most "-"-separated words of a container name given to the classifier
MaxNameTokens == 3

SeqsUpTo(S, n) == UNION {[1..k -> S] : k \in 0..n}

\* One line of the template "{{.Names}}|{{.Status}}|{{.Ports}}"
Line(name, status, ports) == name \o "|" \o status \o "|" \o ports

\* Lines `docker ps` can print: environment backends (two of them
\* normalising to "default"), a backend that is not Up, backends without a
\* published port, the excluded product, infrastructure services, and lines
\* cut short or empty
LinePool ==
    { Line("ushadow-backend", "Up 2 hours", "0.0.0.0:8000->8000/tcp"),
      Line("ushadow-default-backend", "Up 5 minutes",
           "0.0.0.0:8050->8000/tcp, [::]:8050->8000/tcp"),
      Line("ushadow-foo-backend", "Up 2 hours", "0.0.0.0:500->8000/tcp"),
      Line("ushadow-foo-backend", "Restarting (1) 2 seconds ago",
           "0.0.0.0:8010->8000/tcp"),
      Line("ushadow-bar-backend", "Up 1 second", "8000/tcp"),
      "ushadow-bar-backend|Up 1 second",
      Line("ushadow-chronicle-backend", "Up 2 hours", "0.0.0.0:8080->8000/tcp"),
      Line("redis", "Up 2 hours", "6379/tcp"),
      Line("infra-redis-1", "Restarting (1) 1 second ago", ""),
      Line("infra-mongo-1", "Up 3 days", "0.0.0.0:27017->27017/tcp"),
      "ushadow-foo-ba",
      "" }

\* The runtime gives every container its own name: no two records of one
\* listing share it
DistinctNames(out) ==
    \A i, j \in 1..Len(out) :
        (i # j /\ ParseLine(out[i]) # None /\ ParseLine(out[j]) # None)
            => ParseLine(out[i])[1].name # ParseLine(out[j])[1].name

Stdouts == {out \in SeqsUpTo(LinePool, MaxContainers) : DistinctNames(out)}

\* What the leader-info probe (curl) can do
CurlOutcomes ==
    { [spawned |-> FALSE, exit_ok |-> FALSE, stdout |-> ""],
      [spawned |-> TRUE, exit_ok |-> FALSE, stdout |-> ""],
      [spawned |-> TRUE, exit_ok |-> TRUE, stdout |-> "{\"detail\":\"Not Found\"}"],
      [spawned |-> TRUE, exit_ok |-> TRUE,
       stdout |-> "{\"hostname\":\"leader\",\"ushadow_api_url\":\"https://leader.ts.net\",\"port\":8000}"] }

\* A valid mapping "H:P->C/tcp" as a comma-segment, with the port it states
Mapping(host, p, c) ==
    [text  |-> host \o ":" \o FmtInt(p) \o "->" \o FmtInt(c) \o "/tcp",
     valid |-> p \in 0..65535,
     port  |-> p]

\* A comma-segment that is no mapping
Junk(text) == [text |-> text, valid |-> FALSE, port |-> 0]

SegmentPool ==
    { Mapping(h, p, 80) : h \in {"0.0.0.0", "[::]", "::"}, p \in {0, 3000, 8050, 65535, 65536} }
    \cup { Junk(""), Junk("some random text"), Junk("8000/tcp"),
           Junk("8000"), Junk("0.0.0.0:8000") }

\* Iterator::join(", "): how docker prints several mappings
RECURSIVE JoinTexts(_, _)
JoinTexts(texts, sep) ==
    IF Len(texts) = 0 THEN ""
    ELSE IF Len(texts) = 1 THEN texts[1]
    ELSE texts[1] \o sep \o JoinTexts(Tail(texts), sep)

PortsString(segments) ==
    JoinTexts([i \in 1..Len(segments) |-> segments[i].text], ", ")

NameTokens == {"ushadow", "backend", "foo", "default", "chronicle", "redis", "mongo", "1"}

\* ------------------------------------------------------------------------
\* State
\* ------------------------------------------------------------------------

VARIABLES
    dockerWhere,          \* runtime: "none" | "path" | "known"
    daemonUp,             \* runtime: the daemon answers
    tailscaleInstalled,   \* mesh client installed
    tailscaleConnected,   \* mesh client connected
    pc,                   \* where the discover_environments call stands
    docker_probe,         \* <<docker_installed, docker_running>> (line 18)
    tailscale_probe,      \* <<tailscale_installed, tailscale_connected>> (line 19)
    psIssued,             \* `docker ps` commands this call has issued
    stdout,               \* the lines of the `docker ps` output
    infrastructure,       \* line 45
    env_backends,         \* line 46, the part not yet assembled
    environments,         \* line 102
    result,               \* what the call returned
    ep_segments,          \* extract_port harness: the segments of the input
    ep_done,              \* extract_port harness: the function has run
    ep_result,            \* extract_port harness: what it returned
    nm_tokens,            \* classifier harness: the words of the container name
    nm_done,              \* classifier harness: the rule has run
    nm_result,            \* classifier harness: what the rules say of the name
    pa_occupied,          \* port allocator: the local ports that cannot be bound
    pa_fn,                \* port allocator: the function called
    pa_pc,                \* port allocator: "defaults" | "loop" | "done"
    pa_flags,             \* port allocator: <<backend_ok, webui_ok>> of check_ports
    pa_offset,            \* port allocator: the loop variable offset
    pa_probed,            \* port allocator: the offsets probed so far
    pa_result,            \* port allocator: what the function returned
    ft_env,               \* container filter: the env_name argument
    ft_name,              \* container filter: one listed container name
    ft_done,              \* container filter: both closures have been applied
    ft_result,            \* container filter: [start, stop], what each closure said
    project_root,         \* AppState.project_root
    lc_call,              \* lifecycle: the command being served, with its arguments
    lc_pc,                \* lifecycle: position inside the command
    lc_root,              \* lifecycle: the local project_root (clone of the state)
    lc_checked,           \* lifecycle: the directory whose start-dev.sh was looked for
    lc_cmds,              \* lifecycle: the external commands run by this call
    lc_containers,        \* lifecycle: the local containers (filtered names)
    lc_result,            \* lifecycle: Pending, or what the command returned
    pr_env,               \* probes: the process environment (the MOCK_ variables)
    pr_host,              \* probes: what is installed and running on the host
    pr_fn,                \* probes: the probe called
    pr_done,              \* probes: the probe has returned
    pr_result,            \* probes: [value, spawned], the tuple and the processes run
    tu_response,          \* leader-info probe: what curl met (transport, status, body)
    tu_done,              \* leader-info probe: get_tailscale_url has returned
    tu_result,            \* leader-info probe: the Option<String> returned
    up_tree,              \* repository: "clean" or "dirty" (local changes in the work tree)
    up_stash,             \* repository: the number of entries on the git stash
    up_pc,                \* update_ushadow_repo: position inside the command
    up_cmds,              \* update_ushadow_repo: the git commands run by this call
    up_had_changes,       \* update_ushadow_repo: the local had_changes
    up_result,            \* update_ushadow_repo: Pending, or what it returned
    sq_world,             \* stop/discover/start: the containers of the runtime, in listing order
    sq_env,               \* stop/discover/start: the environment name N
    sq_pc,                \* stop/discover/start: "stop" | "discover" | "start" | "end"
    sq_stopped,           \* stop/discover/start: the names stop_environment stopped
    sq_snapshot,          \* stop/discover/start: the environments discovery returned
    sq_started,           \* stop/discover/start: the names start_environment started
    ar_backend_port,      \* port arithmetic: the backend port discovery extracted
    ar_done,              \* port arithmetic: discovery has derived the UI port
    ar_result,            \* port arithmetic: the webui_port derived
    ar_port_offset        \* port arithmetic: port_offset of create_environment

discoveryVars ==
    <<dockerWhere, daemonUp, tailscaleInstalled, tailscaleConnected, pc,
      docker_probe, tailscale_probe, psIssued, stdout, infrastructure,
      env_backends, environments, result>>

epVars == <<ep_segments, ep_done, ep_result>>

nmVars == <<nm_tokens, nm_done, nm_result>>

paVars == <<pa_occupied, pa_fn, pa_pc, pa_flags, pa_offset, pa_probed, pa_result>>

ftVars == <<ft_env, ft_name, ft_done, ft_result>>

lcVars ==
    <<project_root, lc_call, lc_pc, lc_root, lc_checked, lc_cmds, lc_containers, lc_result>>

prVars == <<pr_env, pr_host, pr_fn, pr_done, pr_result>>

tuVars == <<tu_response, tu_done, tu_result>>

upVars == <<up_tree, up_stash, up_pc, up_cmds, up_had_changes, up_result>>

sqVars == <<sq_world, sq_env, sq_pc, sq_stopped, sq_snapshot, sq_started>>

arVars == <<ar_backend_port, ar_done, ar_result, ar_port_offset>>

vars == <<discoveryVars, epVars, nmVars, paVars, ftVars, lcVars, prVars, tuVars, upVars,
          sqVars, arVars>>

runtimeVars == <<dockerWhere, daemonUp, tailscaleInstalled, tailscaleConnected>>

Pending == [kind |-> "pending"]

Ok(v) == [kind |-> "Ok", value |-> v]

Err(msg) == [kind |-> "Err", msg |-> msg]

\* models.rs: DiscoveryResult
DiscoveryResult(infra, envs, docker_ok, tailscale_ok) ==
    [infrastructure |-> infra, environments |-> envs,
     docker_ok |-> docker_ok, tailscale_ok |-> tailscale_ok]

\* The frame of a fresh discover_environments call
FreshCall ==
    /\ pc = "check_docker"
    /\ docker_probe = <<FALSE, FALSE>>
    /\ tailscale_probe = <<FALSE, FALSE>>
    /\ psIssued = 0
    /\ stdout = <<>>
    /\ infrastructure = <<>>
    /\ env_backends = <<>>
    /\ environments = <<>>
    /\ result = Pending

EpIdle == ep_segments = <<>> /\ ep_done = FALSE /\ ep_result = None

NmIdle == nm_tokens = <<>> /\ nm_done = FALSE /\ nm_result = None

NoCall == [op |-> "none", env_name |-> "", mode |-> None]

FtIdle == ft_env = "" /\ ft_name = "" /\ ft_done = FALSE /\ ft_result = None

LcIdle ==
    /\ project_root = None /\ lc_call = NoCall /\ lc_pc = "idle" /\ lc_root = None
    /\ lc_checked = None
    /\ lc_cmds = <<>> /\ lc_containers = <<>> /\ lc_result = Pending

NoEnv ==
    [MOCK_MODE |-> None, MOCK_DOCKER_INSTALLED |-> None, MOCK_DOCKER_RUNNING |-> None,
     MOCK_TAILSCALE_INSTALLED |-> None, MOCK_GIT_INSTALLED |-> None,
     MOCK_PYTHON_INSTALLED |-> None]

NoHost ==
    [docker |-> "none", daemon |-> FALSE, tailscale |-> "none", git |-> FALSE,
     python |-> "none"]

NoResponse == [spawned |-> FALSE, transport_ok |-> FALSE, http_status |-> 0, body |-> ""]

SqIdle ==
    /\ sq_world = <<>> /\ sq_env = "" /\ sq_pc = "idle" /\ sq_stopped = <<>>
    /\ sq_snapshot = <<>> /\ sq_started = <<>>

ArIdle ==
    ar_backend_port = 0 /\ ar_done = FALSE /\ ar_result = None /\ ar_port_offset = None

UpIdle ==
    /\ up_tree = "clean" /\ up_stash = 0 /\ up_pc = "idle" /\ up_cmds = <<>>
    /\ up_had_changes = FALSE /\ up_result = Pending

TuIdle == tu_response = NoResponse /\ tu_done = FALSE /\ tu_result = None

PrIdle ==
    /\ pr_env = NoEnv /\ pr_host = NoHost /\ pr_fn = "none" /\ pr_done = FALSE
    /\ pr_result = None

PaIdle ==
    /\ pa_occupied = {} /\ pa_fn = "none" /\ pa_pc = "idle"
    /\ pa_flags = <<FALSE, FALSE>> /\ pa_offset = 0 /\ pa_probed = <<>>
    /\ pa_result = None

Init ==
    /\ dockerWhere \in {"none", "path", "known"}
    /\ daemonUp \in BOOLEAN
    /\ tailscaleInstalled \in BOOLEAN
    /\ tailscaleConnected \in BOOLEAN
    /\ FreshCall
    /\ EpIdle
    /\ NmIdle
    /\ PaIdle
    /\ FtIdle
    /\ LcIdle
    /\ PrIdle
    /\ TuIdle
    /\ UpIdle
    /\ SqIdle
    /\ ArIdle

\* ------------------------------------------------------------------------
\* discover_environments, one action per external command
\* ------------------------------------------------------------------------

\* Line 18
CheckDocker ==
    /\ pc = "check_docker"
    /\ docker_probe' = check_docker(dockerWhere, daemonUp)
    /\ pc' = "check_tailscale"
    /\ UNCHANGED <<runtimeVars, tailscale_probe, psIssued, stdout, infrastructure,
                   env_backends, environments, result, epVars, nmVars, paVars, ftVars,
                   lcVars, prVars, tuVars, upVars, sqVars, arVars>>

\* Lines 19-31: the mesh probe, then the early return when docker is not ok
CheckTailscale ==
    /\ pc = "check_tailscale"
    /\ LET ts == check_tailscale(tailscaleInstalled, tailscaleConnected)
           docker_ok == DockerOk(docker_probe[1], docker_probe[2])
           tailscale_ok == TailscaleOk(ts[1], ts[2])
       IN  /\ tailscale_probe' = ts
           /\ IF ~docker_ok
              THEN /\ result' = Ok(DiscoveryResult(<<>>, <<>>, FALSE, tailscale_ok))
                   /\ pc' = "done"
              ELSE /\ result' = result
                   /\ pc' = "list"
    /\ UNCHANGED <<runtimeVars, docker_probe, psIssued, stdout, infrastructure,
                   env_backends, environments, epVars, nmVars, paVars, ftVars, lcVars,
                   prVars, tuVars, upVars, sqVars, arVars>>

\* Lines 34-37: Command::new("docker") cannot be spawned when the binary is
\* not on the PATH of the launcher
ListSpawnFails ==
    /\ pc = "list"
    /\ dockerWhere # "path"
    /\ psIssued' = psIssued + 1
    /\ result' = Err("Failed to get containers: No such file or directory (os error 2)")
    /\ pc' = "done"
    /\ UNCHANGED <<runtimeVars, docker_probe, tailscale_probe, stdout, infrastructure,
                   env_backends, environments, epVars, nmVars, paVars, ftVars, lcVars,
                   prVars, tuVars, upVars, sqVars, arVars>>

\* Lines 39-42: `docker ps` exits non-zero when the daemon does not answer
ListExitsNonZero ==
    /\ pc = "list"
    /\ dockerWhere = "path"
    /\ ~daemonUp
    /\ psIssued' = psIssued + 1
    /\ result' = Err("Docker command failed: Cannot connect to the Docker daemon")
    /\ pc' = "done"
    /\ UNCHANGED <<runtimeVars, docker_probe, tailscale_probe, stdout, infrastructure,
                   env_backends, environments, epVars, nmVars, paVars, ftVars, lcVars,
                   prVars, tuVars, upVars, sqVars, arVars>>

\* Lines 34-99: `docker ps` succeeds and its output is parsed
ListContainers ==
    /\ pc = "list"
    /\ dockerWhere = "path"
    /\ daemonUp
    /\ \E out \in Stdouts :
          LET acc == ParseLoop(out, EmptyAcc)
          IN  /\ stdout' = out
              /\ infrastructure' = acc.infrastructure
              /\ env_backends' = acc.env_backends
    /\ psIssued' = psIssued + 1
    /\ pc' = "assemble"
    /\ UNCHANGED <<runtimeVars, docker_probe, tailscale_probe, environments, result,
                   epVars, nmVars, paVars, ftVars, lcVars, prVars, tuVars, upVars, sqVars, arVars>>

\* Lines 103-130: one iteration of the assembly loop, with its curl probe
AssembleEnvironment ==
    /\ pc = "assemble"
    /\ env_backends # <<>>
    /\ \E curl \in CurlOutcomes :
          environments' =
              Append(environments,
                     BuildEnvironment(Head(env_backends)[1], Head(env_backends)[2],
                                      get_tailscale_url(curl)))
    /\ env_backends' = Tail(env_backends)
    /\ UNCHANGED <<runtimeVars, pc, docker_probe, tailscale_probe, psIssued, stdout,
                   infrastructure, result, epVars, nmVars, paVars, ftVars, lcVars, prVars,
                   tuVars, upVars, sqVars, arVars>>

\* Lines 132-137
ReturnSnapshot ==
    /\ pc = "assemble"
    /\ env_backends = <<>>
    /\ result' = Ok(DiscoveryResult(infrastructure, environments,
                                    DockerOk(docker_probe[1], docker_probe[2]),
                                    TailscaleOk(tailscale_probe[1], tailscale_probe[2])))
    /\ pc' = "done"
    /\ UNCHANGED <<runtimeVars, docker_probe, tailscale_probe, psIssued, stdout,
                   infrastructure, env_backends, environments, epVars, nmVars, paVars,
                   ftVars, lcVars, prVars, tuVars, upVars, sqVars, arVars>>

\* The caller polls again: a new call with a fresh frame
NextCall ==
    /\ pc = "done"
    /\ pc' = "check_docker"
    /\ docker_probe' = <<FALSE, FALSE>>
    /\ tailscale_probe' = <<FALSE, FALSE>>
    /\ psIssued' = 0
    /\ stdout' = <<>>
    /\ infrastructure' = <<>>
    /\ env_backends' = <<>>
    /\ environments' = <<>>
    /\ result' = Pending
    /\ UNCHANGED <<runtimeVars, epVars, nmVars, paVars, ftVars, lcVars, prVars, tuVars,
                   upVars, sqVars, arVars>>

\* The daemon stops while the launcher runs, at any point of a call
DaemonStop ==
    /\ daemonUp
    /\ daemonUp' = FALSE
    /\ UNCHANGED <<dockerWhere, tailscaleInstalled, tailscaleConnected, pc,
                   docker_probe, tailscale_probe, psIssued, stdout, infrastructure,
                   env_backends, environments, result, epVars, nmVars, paVars, ftVars,
                   lcVars, prVars, tuVars, upVars, sqVars, arVars>>

\* The daemon starts
DaemonStart ==
    /\ ~daemonUp
    /\ dockerWhere # "none"
    /\ daemonUp' = TRUE
    /\ UNCHANGED <<dockerWhere, tailscaleInstalled, tailscaleConnected, pc,
                   docker_probe, tailscale_probe, psIssued, stdout, infrastructure,
                   env_backends, environments, result, epVars, nmVars, paVars, ftVars,
                   lcVars, prVars, tuVars, upVars, sqVars, arVars>>

Next ==
    \/ CheckDocker
    \/ CheckTailscale
    \/ ListSpawnFails
    \/ ListExitsNonZero
    \/ ListContainers
    \/ AssembleEnvironment
    \/ ReturnSnapshot
    \/ NextCall
    \/ DaemonStop
    \/ DaemonStart

Spec == Init /\ [][Next]_vars

\* ------------------------------------------------------------------------
\* extract_port on its own: every ports string of the segment pool
\* ------------------------------------------------------------------------

InitExtractPort ==
    /\ dockerWhere = "path" /\ daemonUp = TRUE
    /\ tailscaleInstalled = TRUE /\ tailscaleConnected = TRUE
    /\ FreshCall
    /\ NmIdle
    /\ PaIdle
    /\ FtIdle
    /\ LcIdle
    /\ PrIdle
    /\ TuIdle
    /\ UpIdle
    /\ SqIdle
    /\ ArIdle
    /\ ep_segments \in (SeqsUpTo(SegmentPool, MaxSegments) \ {<<>>})
    /\ ep_done = FALSE
    /\ ep_result = None

ApplyExtractPort ==
    /\ ~ep_done
    /\ ep_segments # <<>>
    /\ ep_result' = extract_port(PortsString(ep_segments))
    /\ ep_done' = TRUE
    /\ UNCHANGED <<discoveryVars, ep_segments, nmVars, paVars, ftVars, lcVars, prVars,
                   tuVars, upVars, sqVars, arVars>>

NextExtractPort == ApplyExtractPort

SpecExtractPort == InitExtractPort /\ [][NextExtractPort]_vars

\* ------------------------------------------------------------------------
\* docker.rs: the container filters of start_environment / stop_environment
\* ------------------------------------------------------------------------

\* str::lines: pieces ended by "\n" (a "\r" before it is dropped too), the
\* last piece only when it is not empty
StripCR(piece) ==
    IF EndsWith(piece, "\r") THEN SubSeq(piece, 1, Len(piece) - 1) ELSE piece

Lines(s) ==
    LET parts == Split(s, "\n")
        n     == IF Last(parts) = "" THEN Len(parts) - 1 ELSE Len(parts)
    IN  [i \in 1..n |-> IF i < Len(parts) THEN StripCR(parts[i]) ELSE parts[i]]

\* Lines 170-174 and 229-234: the pattern of an environment name
Pattern(env_name) ==
    IF env_name = "default" THEN "ushadow-" ELSE "ushadow-" \o env_name \o "-"

\* Lines 191-196 and 252-257: the names listed for the default environment
DefaultRoleNames ==
    <<"ushadow-backend", "ushadow-webui", "ushadow-frontend", "ushadow-worker",
      "ushadow-tailscale">>

IsDefaultRoleName(name) ==
    \/ \E i \in 1..Len(DefaultRoleNames) : name = DefaultRoleNames[i]
    \/ \E i \in 1..Len(DefaultRoleNames) : StartsWith(name, DefaultRoleNames[i] \o "-")

\* Lines 188-200: the closure given to filter in start_environment
StartSelects(env_name, name) ==
    IF env_name = "default"
    THEN StartsWith(name, Pattern(env_name)) /\ IsDefaultRoleName(name)
    ELSE StartsWith(name, Pattern(env_name))

\* Lines 248-261: the closure given to filter in stop_environment
StopSelects(env_name, name) ==
    IF env_name = "default"
    THEN /\ StartsWith(name, Pattern(env_name))
         /\ ~Contains(name, "-backend-")
         /\ IsDefaultRoleName(name)
    ELSE StartsWith(name, Pattern(env_name))

\* ------------------------------------------------------------------------
\* The environment-backend rule on its own: every name of up to
\* MaxNameTokens words
\* ------------------------------------------------------------------------

ContainerName(tokens) == JoinTexts(tokens, "-")

InitNaming ==
    /\ dockerWhere = "path" /\ daemonUp = TRUE
    /\ tailscaleInstalled = TRUE /\ tailscaleConnected = TRUE
    /\ FreshCall
    /\ EpIdle
    /\ PaIdle
    /\ FtIdle
    /\ LcIdle
    /\ PrIdle
    /\ TuIdle
    /\ UpIdle
    /\ SqIdle
    /\ ArIdle
    /\ nm_tokens \in (SeqsUpTo(NameTokens, MaxNameTokens) \ {<<>>})
    /\ nm_done = FALSE
    /\ nm_result = None

\* discovery.rs lines 67-89 applied to a running container of that name
\* (the infrastructure loop, the backend rule, the environment name), and
\* the filters docker.rs builds for the environment name so derived
ClassifyName ==
    /\ ~nm_done
    /\ nm_tokens # <<>>
    /\ LET name     == ContainerName(nm_tokens)
           rec      == ParseLine(Line(name, "Up 2 hours", ""))[1]
           env_name == EnvName(name)
       IN  nm_result' = Some([is_backend |-> IsEnvBackend(name),
                              env_name   |-> env_name,
                              infra      |-> InfraLoop(EmptyAcc, rec, 1).infrastructure,
                              start      |-> StartSelects(env_name, name),
                              stop       |-> StopSelects(env_name, name)])
    /\ nm_done' = TRUE
    /\ UNCHANGED <<discoveryVars, epVars, nm_tokens, paVars, ftVars, lcVars, prVars, tuVars,
                   upVars, sqVars, arVars>>

NextNaming == ClassifyName

SpecNaming == InitNaming /\ [][NextNaming]_vars

\* ------------------------------------------------------------------------
\* docker.rs: the port allocator (check_ports, find_available_ports)
\* ------------------------------------------------------------------------

\* The addition in 8 bits
AddU8(a, b) == (a + b) % 256

\* u16 addition
AddU16(a, b) == (a + b) % 65536

\* Lines 9-11: a port binds unless something occupies it
is_port_available(occupied, port) == port \notin occupied

\* Lines 27 and 46 with || for &&
EitherAvailable(occupied, backend_port, webui_port) ==
    is_port_available(occupied, backend_port) \/ is_port_available(occupied, webui_port)

\* Lines 27 and 46: both ports of the pair bind
BothAvailable(occupied, backend_port, webui_port) ==
    is_port_available(occupied, backend_port) /\ is_port_available(occupied, webui_port)

\* Lines 42-43 with the offset left out of the UI port
PortPairBackendOnly(default_backend, default_webui, offset) ==
    <<AddU16(default_backend, offset), default_webui>>

\* Lines 42-43: the pair tried at an offset
PortPair(default_backend, default_webui, offset) ==
    <<AddU16(default_backend, offset), AddU16(default_webui, offset)>>

\* Line 54 with a limit one step too far
GiveUpLate(offset) == offset > 1010

\* Line 54: the safety limit
GiveUp(offset) == offset > 1000

\* The occupied ports the allocator is run against: the offsets below the
\* index firstFree are blocked (by the backend port, the UI port or both), the
\* offset at firstFree is free, and the later ones are all free or all blocked;
\* firstFree = 101 blocks every offset up to 1000
OccupiedSet(firstFree, kind, after) ==
    LET blocked == {i \in 0..100 : i < firstFree \/ (after = "busy" /\ i > firstFree)}
    IN  {8000 + 10 * i : i \in {j \in blocked : kind \in {"backend", "both"}}}
        \cup {3000 + 10 * i : i \in {j \in blocked : kind \in {"webui", "both"}}}

OccupiedSets ==
    {OccupiedSet(f, k, a) : f \in 0..101, k \in {"backend", "webui", "both"},
                            a \in {"free", "busy"}}

InitPorts ==
    /\ dockerWhere = "path" /\ daemonUp = TRUE
    /\ tailscaleInstalled = TRUE /\ tailscaleConnected = TRUE
    /\ FreshCall
    /\ EpIdle
    /\ NmIdle
    /\ pa_occupied \in OccupiedSets
    /\ pa_fn \in {"check_ports", "find_available_ports"}
    /\ pa_pc = IF pa_fn = "check_ports" THEN "defaults" ELSE "loop"
    /\ pa_flags = <<FALSE, FALSE>>
    /\ pa_offset = 0
    /\ pa_probed = <<>>
    /\ pa_result = None
    /\ FtIdle
    /\ LcIdle
    /\ PrIdle
    /\ TuIdle
    /\ UpIdle
    /\ SqIdle
    /\ ArIdle

\* check_ports lines 17-25: the two default ports are probed on their own
CheckPortsDefaults ==
    /\ pa_fn = "check_ports"
    /\ pa_pc = "defaults"
    /\ LET backend_ok == is_port_available(pa_occupied, 8000)
           webui_ok == is_port_available(pa_occupied, 3000)
       IN  /\ pa_flags' = <<backend_ok, webui_ok>>
           /\ IF backend_ok /\ webui_ok
              THEN /\ pa_result' = Some(<<TRUE, TRUE, 0>>)
                   /\ pa_pc' = "done"
                   /\ pa_offset' = pa_offset
              ELSE /\ pa_result' = pa_result
                   /\ pa_pc' = "loop"
                   /\ pa_offset' = 10
    /\ pa_probed' = Append(pa_probed, 0)
    /\ UNCHANGED <<discoveryVars, epVars, nmVars, pa_occupied, pa_fn, ftVars, lcVars, prVars,
                   tuVars, upVars, sqVars, arVars>>

\* check_ports lines 26-33: one test of the while condition, with the probe
\* of the pair when it holds
CheckPortsProbe ==
    /\ pa_fn = "check_ports"
    /\ pa_pc = "loop"
    /\ IF pa_offset <= 1000
       THEN /\ pa_probed' = Append(pa_probed, pa_offset)
            /\ IF BothAvailable(pa_occupied, AddU16(8000, pa_offset),
                                AddU16(3000, pa_offset))
               THEN /\ pa_result' = Some(<<pa_flags[1], pa_flags[2], pa_offset>>)
                    /\ pa_pc' = "done"
                    /\ pa_offset' = pa_offset
               ELSE /\ pa_result' = pa_result
                    /\ pa_pc' = "loop"
                    /\ pa_offset' = AddU16(pa_offset, 10)
       ELSE /\ pa_probed' = pa_probed
            /\ pa_result' = Some(<<pa_flags[1], pa_flags[2], 0>>)
            /\ pa_pc' = "done"
            /\ pa_offset' = pa_offset
    /\ UNCHANGED <<discoveryVars, epVars, nmVars, pa_occupied, pa_fn, pa_flags, ftVars,
                   lcVars, prVars, tuVars, upVars, sqVars, arVars>>

\* find_available_ports(8000, 3000), lines 41-58: one iteration of the loop
FindPortsProbe ==
    /\ pa_fn = "find_available_ports"
    /\ pa_pc = "loop"
    /\ LET backend_port == PortPair(8000, 3000, pa_offset)[1]
           webui_port == PortPair(8000, 3000, pa_offset)[2]
       IN  /\ pa_probed' = Append(pa_probed, pa_offset)
           /\ pa_offset' = IF BothAvailable(pa_occupied, backend_port, webui_port)
                           THEN pa_offset ELSE AddU16(pa_offset, 10)
           /\ IF BothAvailable(pa_occupied, backend_port, webui_port)
              THEN /\ pa_result' = Some(<<backend_port, webui_port>>)
                   /\ pa_pc' = "done"
              ELSE IF GiveUp(AddU16(pa_offset, 10))
              THEN /\ pa_result' = Some(<<8000, 3000>>)
                   /\ pa_pc' = "done"
              ELSE /\ pa_result' = pa_result
                   /\ pa_pc' = "loop"
    /\ UNCHANGED <<discoveryVars, epVars, nmVars, pa_occupied, pa_fn, pa_flags, ftVars,
                   lcVars, prVars, tuVars, upVars, sqVars, arVars>>

NextPorts == CheckPortsDefaults \/ CheckPortsProbe \/ FindPortsProbe

SpecPorts == InitPorts /\ [][NextPorts]_vars

\* ------------------------------------------------------------------------
\* docker.rs: the filter closures applied to one name
\* ------------------------------------------------------------------------

\* The words container names are joined from, and the environment names asked for
FilterTokens == {"ushadow", "backend", "worker", "foo", "1"}

FilterEnvNames == {"default", "foo", "worker"}

FilterNames ==
    {ContainerName(t) : t \in (SeqsUpTo(FilterTokens, MaxNameTokens) \ {<<>>})}

InitFilter ==
    /\ dockerWhere = "path" /\ daemonUp = TRUE
    /\ tailscaleInstalled = TRUE /\ tailscaleConnected = TRUE
    /\ FreshCall
    /\ EpIdle
    /\ NmIdle
    /\ PaIdle
    /\ LcIdle
    /\ PrIdle
    /\ TuIdle
    /\ UpIdle
    /\ SqIdle
    /\ ArIdle
    /\ ft_env \in FilterEnvNames
    /\ ft_name \in FilterNames
    /\ ft_done = FALSE
    /\ ft_result = None

\* Both closures applied to the same environment name and container name,
\* and the environment names whose start / stop would take the container
ApplyFilters ==
    /\ ~ft_done
    /\ ft_name # ""
    /\ ft_result' = Some([start |-> StartSelects(ft_env, ft_name),
                          stop  |-> StopSelects(ft_env, ft_name),
                          start_of |-> {e \in FilterEnvNames : StartSelects(e, ft_name)},
                          stop_of  |-> {e \in FilterEnvNames : StopSelects(e, ft_name)}])
    /\ ft_done' = TRUE
    /\ UNCHANGED <<discoveryVars, epVars, nmVars, paVars, ft_env, ft_name, lcVars, prVars,
                   tuVars, upVars, sqVars, arVars>>

NextFilter == ApplyFilters

SpecFilter == InitFilter /\ [][NextFilter]_vars

\* ------------------------------------------------------------------------
\* docker.rs: the lifecycle commands (infrastructure, environments, creation)
\* ------------------------------------------------------------------------

\* The text of the io::Error of a command that could not be spawned
SpawnError == "No such file or directory (os error 2)"

\* What Command::output() gives: Err(e) (not spawned), or the exit status
\* with the two captured streams
NotSpawned == [spawned |-> FALSE, success |-> FALSE, stdout |-> "", stderr |-> ""]

Exited(success, out_text, err_text) ==
    [spawned |-> TRUE, success |-> success, stdout |-> out_text, stderr |-> err_text]

\* One external command as it was run
Command(program, args, dir, env, out) ==
    [program |-> program, args |-> args, dir |-> dir, env |-> env, out |-> out]

\* Lines 92-98 and 147-153
ComposeUpArgs ==
    <<"compose", "-f", "compose/docker-compose.infra.yml", "-p", "infra",
      "--profile", "infra", "up", "-d">>

\* Lines 119 and 141
ComposeDownArgs == <<"compose", "-p", "infra", "down">>

\* Line 178
ListExitedArgs == <<"ps", "-a", "--filter", "status=exited", "--format", "{{.Names}}">>

\* Line 238
ListAllArgs == <<"ps", "-a", "--format", "{{.Names}}">>

\* Lines 88, 116, 136, 445 with another message
RequireRootGeneric(root) ==
    IF root = None THEN Err("Infrastructure failed: ") ELSE Ok(root[1])

\* Lines 88, 116, 136, 445: root.clone().ok_or("Project root not set")
RequireRoot(root) ==
    IF root = None THEN Err("Project root not set") ELSE Ok(root[1])

\* The map_err / status.success() / Ok tail shared by the commands
CommandResult(out, spawn_prefix, exit_prefix, ok_msg) ==
    IF ~out.spawned THEN Err(spawn_prefix \o SpawnError)
    ELSE IF ~out.success THEN Err(exit_prefix \o out.stderr)
    ELSE Ok(ok_msg)

\* Lines 100-108, 122-129, 155-163: the tail of the three infrastructure commands
ComposeResult(op, out) ==
    IF op = "start_infrastructure"
    THEN CommandResult(out, "Failed to start infrastructure: ",
                       "Infrastructure failed: ", "Infrastructure started")
    ELSE IF op = "stop_infrastructure"
    THEN CommandResult(out, "Failed to stop infrastructure: ",
                       "Stop failed: ", "Infrastructure stopped")
    ELSE CommandResult(out, "Failed to restart infrastructure: ",
                       "Restart failed: ", "Infrastructure restarted")

\* Lines 139-143 with the outcome of "down" propagated
AfterDownChecked(out) ==
    IF out.spawned /\ out.success
    THEN [pc |-> "compose", result |-> Pending]
    ELSE [pc |-> "done", result |-> Err("Restart failed: " \o out.stderr)]

\* Lines 139-143: let _ = ...output(): whatever "down" did, go on
AfterDown(out) == [pc |-> "compose", result |-> Pending]

\* Lines 186-201 and 246-262: the names kept by the filter, in order
RECURSIVE Filter(_, _, _)
Filter(op, env_name, names) ==
    IF names = <<>> THEN <<>>
    ELSE LET keep == IF op = "start_environment"
                     THEN StartSelects(env_name, names[1])
                     ELSE StopSelects(env_name, names[1])
         IN  (IF keep THEN <<names[1]>> ELSE <<>>) \o Filter(op, env_name, Tail(names))

\* Lines 203-205 and 264-266 returning an error
NothingMatchedIsErr(op, env_name) ==
    IF op = "start_environment"
    THEN Err("No stopped containers found for environment '" \o env_name \o "'")
    ELSE Err("No containers found for environment '" \o env_name \o "'")

\* Lines 203-205 and 264-266: the result when containers.is_empty()
NothingMatched(op, env_name) ==
    IF op = "start_environment"
    THEN Ok("No stopped containers found for environment '" \o env_name \o "'")
    ELSE Ok("No containers found for environment '" \o env_name \o "'")

\* Lines 211-222 and 272-283: the tail after the grouped start / stop
GroupResult(op, env_name, containers, out) ==
    IF op = "start_environment"
    THEN CommandResult(out, "Failed to start containers: ", "Start failed: ",
                       "Environment '" \o env_name \o "' started ("
                           \o FmtInt(Len(containers)) \o " containers)")
    ELSE CommandResult(out, "Failed to stop containers: ", "Stop failed: ",
                       "Environment '" \o env_name \o "' stopped ("
                           \o FmtInt(Len(containers)) \o " containers)")

\* Line 450: script_path.exists(), on a disk where only /repo is a checkout
HasScript(project_root_dir) == project_root_dir = "/repo"

\* Lines 462-465 taking every stated mode but "dev" for production
ModeFlagSomeIsProd(mode) ==
    IF mode # None /\ mode # Some("dev") THEN "--prod" ELSE "--dev"

\* Lines 462-465: match mode.as_deref()
ModeFlag(mode) == IF mode = Some("prod") THEN "--prod" ELSE "--dev"

\* Lines 480-481: error_msg.lines().last().unwrap_or(&error_msg)
ErrorDetail(out_text, err_text) ==
    LET error_msg == IF err_text # "" THEN err_text ELSE out_text
        ls        == Lines(error_msg)
    IN  IF ls = <<>> THEN error_msg ELSE Last(ls)

\* Lines 477-490: the tail of create_environment
CreateResult(name, backend_port, webui_port, out) ==
    IF ~out.spawned THEN Err("Failed to run start-dev.sh: " \o SpawnError)
    ELSE IF ~out.success
    THEN Err("Failed to start environment: " \o ErrorDetail(out.stdout, out.stderr))
    ELSE LET port_offset == (backend_port - 8000) % 65536
             port_info == IF port_offset > 0
                          THEN " (ports: backend=" \o FmtInt(backend_port)
                                   \o ", webui=" \o FmtInt(webui_port) \o ")"
                          ELSE ""
         IN  Ok("Environment '" \o name \o "' started" \o port_info)

\* The directories set_project_root is called with
Roots == {"/repo", "/tmp"}

\* What a docker command other than the listing can do
DockerOutcomes ==
    { NotSpawned,
      Exited(FALSE, "", "Cannot connect to the Docker daemon\n"),
      Exited(TRUE, "", "") }

\* The container names a listing can print
ListedNames ==
    {"ushadow-backend", "ushadow-backend-1", "ushadow-foo-backend",
     "ushadow-worker-foo", "postgres"}

RECURSIVE JoinLines(_)
JoinLines(names) ==
    IF names = <<>> THEN "" ELSE names[1] \o "\n" \o JoinLines(Tail(names))

Listings ==
    {JoinLines(l) : l \in {q \in SeqsUpTo(ListedNames, MaxContainers) :
                              \A i, j \in 1..Len(q) : i # j => q[i] # q[j]}}

ListOutcomes ==
    { NotSpawned, Exited(FALSE, "", "Cannot connect to the Docker daemon\n") }
    \cup {Exited(TRUE, l, "") : l \in Listings}

\* What start-dev.sh can do
ScriptOutcomes ==
    { NotSpawned,
      Exited(TRUE, "Starting\nReady\n", ""),
      Exited(FALSE, "Building\nError: port in use\n", ""),
      Exited(FALSE, "Starting\n", "warning: no .env\nfatal: compose failed\n"),
      Exited(FALSE, "", "boom\n\n"),
      Exited(FALSE, "", "") }

\* The arguments create_environment is called with
CreateNames == {"foo", "default"}

CreateModes == {None, Some("prod"), Some("dev"), Some("PROD")}

\* The occupied ports create_environment meets: none, the defaults, only the
\* default backend port, all
CreateOccupied ==
    { OccupiedSet(0, "both", "free"), OccupiedSet(1, "both", "free"),
      OccupiedSet(1, "backend", "free"), OccupiedSet(101, "both", "free") }

InitLifecycle ==
    /\ dockerWhere = "path" /\ daemonUp = TRUE
    /\ tailscaleInstalled = TRUE /\ tailscaleConnected = TRUE
    /\ FreshCall
    /\ EpIdle
    /\ NmIdle
    /\ PaIdle
    /\ FtIdle
    /\ LcIdle
    /\ PrIdle
    /\ TuIdle
    /\ UpIdle
    /\ SqIdle
    /\ ArIdle

lcOthers == <<discoveryVars, epVars, nmVars, ftVars, prVars, tuVars, upVars, sqVars, arVars>>

\* The MutexGuard of project_root lives from lock() (lines 87, 115, 135, 444)
\* to drop(root) (lines 89, 117, 137, 446)
GuardHeld == lc_pc = "drop"

\* The directory read from the shared state at the time of the command
CommandDirCurrent(captured, current) == current[1]

\* Lines 99, 120, 142, 154, 470: current_dir(&project_root), the local clone
CommandDir(captured, current) == captured[1]

\* set_project_root, lines 78-82
SetProjectRoot ==
    /\ ~GuardHeld
    /\ \E path \in Roots : project_root' = Some(path)
    /\ UNCHANGED <<lcOthers, paVars, lc_call, lc_pc, lc_root, lc_checked, lc_cmds, lc_containers,
                   lc_result>>

\* start_infrastructure / stop_infrastructure / restart_infrastructure up to
\* the first command: lines 87-89, 115-117, 135-137
BeginInfrastructure ==
    /\ lc_pc = "idle"
    /\ \E op \in {"start_infrastructure", "stop_infrastructure", "restart_infrastructure"} :
         /\ lc_call' = [op |-> op, env_name |-> "", mode |-> None]
         /\ LET r == RequireRoot(project_root)
            IN  IF r.kind = "Err"
                THEN /\ lc_result' = r
                     /\ lc_pc' = "done"
                     /\ lc_root' = None
                ELSE /\ lc_result' = Pending
                     /\ lc_pc' = "drop"
                     /\ lc_root' = Some(r.value)
    /\ UNCHANGED <<lcOthers, paVars, project_root, lc_checked, lc_cmds, lc_containers>>

\* drop(root), lines 89, 117, 137, 446: the guard is released
DropGuard ==
    /\ lc_pc = "drop"
    /\ lc_pc' = IF lc_call.op = "restart_infrastructure" THEN "down"
              ELSE IF lc_call.op = "create_environment" THEN "check_script"
              ELSE "compose"
    /\ UNCHANGED <<lcOthers, paVars, project_root, lc_call, lc_root, lc_checked, lc_cmds,
                   lc_containers, lc_result>>

\* restart_infrastructure lines 139-143: the "down" step
RestartDown ==
    /\ lc_pc = "down"
    /\ \E out \in DockerOutcomes :
         /\ lc_cmds' = Append(lc_cmds, Command("docker", ComposeDownArgs,
                                      CommandDir(lc_root, project_root), <<>>, out))
         /\ lc_pc' = AfterDown(out).pc
         /\ lc_result' = AfterDown(out).result
    /\ UNCHANGED <<lcOthers, paVars, project_root, lc_call, lc_root, lc_checked, lc_containers>>

\* Lines 91-108, 118-129, 146-163: the compose command and the result
ComposeRun ==
    /\ lc_pc = "compose"
    /\ \E out \in DockerOutcomes :
         /\ lc_cmds' = Append(lc_cmds,
                Command("docker",
                        IF lc_call.op = "stop_infrastructure"
                        THEN ComposeDownArgs ELSE ComposeUpArgs,
                        CommandDir(lc_root, project_root), <<>>, out))
         /\ lc_result' = ComposeResult(lc_call.op, out)
    /\ lc_pc' = "done"
    /\ UNCHANGED <<lcOthers, paVars, project_root, lc_call, lc_root, lc_checked, lc_containers>>

\* start_environment / stop_environment: the call (the state is not read)
BeginEnvironment ==
    /\ lc_pc = "idle"
    /\ \E op \in {"start_environment", "stop_environment"}, env_name \in FilterEnvNames :
         lc_call' = [op |-> op, env_name |-> env_name, mode |-> None]
    /\ lc_pc' = "list"
    /\ UNCHANGED <<lcOthers, paVars, project_root, lc_root, lc_checked, lc_cmds, lc_containers,
                   lc_result>>

\* Lines 177-205 and 237-266: the listing, the filter, the empty case
ListForEnvironment ==
    /\ lc_pc = "list"
    /\ \E out \in ListOutcomes :
         /\ lc_cmds' = Append(lc_cmds,
                Command("docker",
                        IF lc_call.op = "start_environment"
                        THEN ListExitedArgs ELSE ListAllArgs,
                        "", <<>>, out))
         /\ IF ~out.spawned
            THEN /\ lc_result' = Err("Failed to list containers: " \o SpawnError)
                 /\ lc_pc' = "done"
                 /\ lc_containers' = lc_containers
            ELSE IF ~out.success
            THEN /\ lc_result' = Err("Failed to list containers")
                 /\ lc_pc' = "done"
                 /\ lc_containers' = lc_containers
            ELSE LET containers == Filter(lc_call.op, lc_call.env_name, Lines(out.stdout))
                 IN  /\ lc_containers' = containers
                     /\ IF containers = <<>>
                        THEN /\ lc_result' = NothingMatched(lc_call.op, lc_call.env_name)
                             /\ lc_pc' = "done"
                        ELSE /\ lc_result' = lc_result
                             /\ lc_pc' = "group"
    /\ UNCHANGED <<lcOthers, paVars, project_root, lc_call, lc_root, lc_checked>>

\* Lines 207-222 and 268-283: the grouped start / stop
GroupCommand ==
    /\ lc_pc = "group"
    /\ \E out \in DockerOutcomes :
         /\ lc_cmds' = Append(lc_cmds,
                Command("docker",
                        <<IF lc_call.op = "start_environment" THEN "start" ELSE "stop">>
                            \o lc_containers,
                        "", <<>>, out))
         /\ lc_result' = GroupResult(lc_call.op, lc_call.env_name, lc_containers, out)
    /\ lc_pc' = "done"
    /\ UNCHANGED <<lcOthers, paVars, project_root, lc_call, lc_root, lc_checked, lc_containers>>

\* create_environment lines 444-445: the lock, the clone, ok_or
BeginCreate ==
    /\ lc_pc = "idle"
    /\ \E name \in CreateNames, mode \in CreateModes :
         lc_call' = [op |-> "create_environment", env_name |-> name, mode |-> mode]
    /\ LET r == RequireRoot(project_root)
       IN  IF r.kind = "Err"
           THEN /\ lc_result' = r
                /\ lc_pc' = "done"
                /\ lc_root' = None
           ELSE /\ lc_result' = Pending
                /\ lc_pc' = "drop"
                /\ lc_root' = Some(r.value)
    /\ UNCHANGED <<lcOthers, paVars, project_root, lc_checked, lc_cmds, lc_containers>>

\* create_environment lines 448-456: the script check, then the call of
\* find_available_ports
CheckScript ==
    /\ lc_pc = "check_script"
    /\ LET dir == CommandDir(lc_root, project_root)
       IN  /\ lc_checked' = Some(dir)
           /\ IF ~HasScript(dir)
              THEN /\ lc_result' =
                          Err("start-dev.sh not found in " \o lc_root[1]
                              \o ". Make sure you're pointing to a valid Ushadow repository.")
                   /\ lc_pc' = "done"
                   /\ UNCHANGED paVars
              ELSE /\ lc_result' = Pending
                   /\ lc_pc' = "find_ports"
                   /\ pa_occupied' \in CreateOccupied
                   /\ pa_fn' = "find_available_ports"
                   /\ pa_pc' = "loop"
                   /\ pa_offset' = 0
                   /\ pa_probed' = <<>>
                   /\ pa_result' = None
                   /\ pa_flags' = pa_flags
    /\ UNCHANGED <<lcOthers, project_root, lc_call, lc_root, lc_cmds, lc_containers>>

\* create_environment lines 458-490: the offset, the flag, the script, the result
RunScript ==
    /\ lc_pc = "find_ports"
    /\ pa_pc = "done"
    /\ LET backend_port == pa_result[1][1]
           webui_port   == pa_result[1][2]
           port_offset  == (backend_port - 8000) % 65536
           mode_flag    == ModeFlag(lc_call.mode)
       IN  \E out \in ScriptOutcomes :
             /\ lc_cmds' = Append(lc_cmds,
                    Command("bash", <<"start-dev.sh", "--quick", mode_flag>>,
                            CommandDir(lc_root, project_root),
                            [ENV_NAME |-> lc_call.env_name,
                             PORT_OFFSET |-> FmtInt(port_offset),
                             USHADOW_NO_BROWSER |-> "1"],
                            out))
             /\ lc_result' = CreateResult(lc_call.env_name, backend_port, webui_port, out)
    /\ lc_pc' = "done"
    /\ UNCHANGED <<lcOthers, paVars, project_root, lc_call, lc_root, lc_checked, lc_containers>>

\* The command has returned; the next one can be served
LifecycleReturn ==
    /\ lc_pc = "done"
    /\ lc_call' = NoCall
    /\ lc_pc' = "idle"
    /\ lc_root' = None
    /\ lc_checked' = None
    /\ lc_cmds' = <<>>
    /\ lc_containers' = <<>>
    /\ lc_result' = Pending
    /\ pa_occupied' = {}
    /\ pa_fn' = "none"
    /\ pa_pc' = "idle"
    /\ pa_flags' = <<FALSE, FALSE>>
    /\ pa_offset' = 0
    /\ pa_probed' = <<>>
    /\ pa_result' = None
    /\ UNCHANGED <<lcOthers, project_root>>

NextLifecycle ==
    \/ SetProjectRoot
    \/ BeginInfrastructure
    \/ DropGuard
    \/ RestartDown
    \/ ComposeRun
    \/ BeginEnvironment
    \/ ListForEnvironment
    \/ GroupCommand
    \/ BeginCreate
    \/ CheckScript
    \/ FindPortsProbe
    \/ RunScript
    \/ LifecycleReturn

SpecLifecycle == InitLifecycle /\ [][NextLifecycle]_vars

\* ------------------------------------------------------------------------
\* prerequisites.rs: the probes, with mock mode
\* ------------------------------------------------------------------------

\* env::var(name).unwrap_or_default(): the value, "" when the variable is unset
EnvVar(env, name) == IF env[name] = None THEN "" ELSE env[name][1]

\* Lines 6-8 with the switch ignored
is_mock_mode_never(env) == FALSE

\* Lines 6-8
is_mock_mode(env) == EnvVar(env, "MOCK_MODE") = "true"

\* str::trim on the output of a --version command
RECURSIVE TrimWhitespace(_)
TrimWhitespace(s) ==
    LET ws(c) == c \in {" ", "\n", "\r", "\t"}
    IN  IF Len(s) > 0 /\ ws(CharAt(s, 1)) THEN TrimWhitespace(SubSeq(s, 2, Len(s)))
        ELSE IF Len(s) > 0 /\ ws(CharAt(s, Len(s)))
        THEN TrimWhitespace(SubSeq(s, 1, Len(s) - 1))
        ELSE s

\* What a probe gives back: its tuple and the processes it spawned, in order
Probe(value, spawned) == [value |-> value, spawned |-> spawned]

MockVersion(installed, text) == IF installed THEN Some(text) ELSE None

\* check_docker, lines 12-75, on a host where the docker binary is on the
\* PATH ("path"), only at /usr/local/bin/docker ("known") or nowhere ("none")
probe_docker(env, host) ==
    IF is_mock_mode(env)
    THEN LET installed == EnvVar(env, "MOCK_DOCKER_INSTALLED") = "true"
             running   == EnvVar(env, "MOCK_DOCKER_RUNNING") = "true"
         IN  Probe(<<installed, running,
                     MockVersion(installed, "Docker version 24.0.0 (MOCKED)")>>, <<>>)
    ELSE LET pair == check_docker(host.docker, host.daemon)
             ver  == Some(TrimWhitespace("Docker version 24.0.7, build afdd53b\n"))
         IN  IF host.docker = "path"
             THEN Probe(<<pair[1], pair[2], ver>>, <<"docker --version", "docker info">>)
             ELSE IF host.docker = "known"
             THEN Probe(<<pair[1], pair[2], ver>>,
                        <<"docker --version", "/usr/local/bin/docker --version",
                          "/usr/local/bin/docker info">>)
             ELSE Probe(<<FALSE, FALSE, None>>, <<"docker --version">>)

\* check_git, lines 79-101
probe_git(env, host) ==
    IF is_mock_mode(env)
    THEN LET installed == EnvVar(env, "MOCK_GIT_INSTALLED") = "true"
         IN  Probe(<<installed, MockVersion(installed, "git version 2.40.0 (MOCKED)")>>, <<>>)
    ELSE IF host.git
         THEN Probe(<<TRUE, Some(TrimWhitespace("git version 2.43.0\n"))>>, <<"git --version">>)
         ELSE Probe(<<FALSE, None>>, <<"git --version">>)

\* check_tailscale, lines 105-143, on a host where tailscale is absent
\* ("none"), installed but logged out ("stopped") or connected
probe_tailscale(env, host) ==
    IF is_mock_mode(env)
    THEN LET installed == EnvVar(env, "MOCK_TAILSCALE_INSTALLED") = "true"
             connected == installed
         IN  Probe(<<installed, connected, MockVersion(installed, "1.56.0 (MOCKED)")>>, <<>>)
    ELSE LET pair == check_tailscale(host.tailscale # "none", host.tailscale = "connected")
             ls   == Lines("1.56.1\n  tailscale commit: abc\n")
             ver  == Some(TrimWhitespace(IF ls = <<>> THEN "" ELSE ls[1]))
         IN  IF host.tailscale = "none"
             THEN Probe(<<FALSE, FALSE, None>>, <<"tailscale --version">>)
             ELSE Probe(<<pair[1], pair[2], ver>>,
                        <<"tailscale --version", "tailscale status">>)

\* check_python, lines 147-186, on a host with python3 ("python3"), with only
\* a python that is Python 3 ("python_is_3") or Python 2 ("python_is_2"), or
\* with none
probe_python(env, host) ==
    IF is_mock_mode(env)
    THEN LET installed == EnvVar(env, "MOCK_PYTHON_INSTALLED") = "true"
         IN  Probe(<<installed, MockVersion(installed, "Python 3.11.0 (MOCKED)")>>, <<>>)
    ELSE IF host.python = "python3"
         THEN Probe(<<TRUE, Some(TrimWhitespace("Python 3.11.4\n"))>>, <<"python3 --version">>)
         ELSE LET version == TrimWhitespace(IF host.python = "python_is_3"
                                            THEN "Python 3.9.6\n" ELSE "Python 2.7.18\n")
              IN  IF host.python # "none" /\ StartsWith(version, "Python 3")
                  THEN Probe(<<TRUE, Some(version)>>,
                             <<"python3 --version", "python --version">>)
                  ELSE Probe(<<FALSE, None>>, <<"python3 --version", "python --version">>)

\* The values an environment variable takes: unset, or one of these texts
EnvValues == {None, Some("true"), Some("false")}

ModeValues == {None, Some("true"), Some("1")}

Envs ==
    [MOCK_MODE : ModeValues, MOCK_DOCKER_INSTALLED : EnvValues,
     MOCK_DOCKER_RUNNING : EnvValues, MOCK_TAILSCALE_INSTALLED : EnvValues,
     MOCK_GIT_INSTALLED : EnvValues, MOCK_PYTHON_INSTALLED : EnvValues]

Hosts ==
    { NoHost,
      [docker |-> "path", daemon |-> TRUE, tailscale |-> "connected", git |-> TRUE,
       python |-> "python3"],
      [docker |-> "known", daemon |-> FALSE, tailscale |-> "stopped", git |-> TRUE,
       python |-> "python_is_3"],
      [docker |-> "path", daemon |-> FALSE, tailscale |-> "none", git |-> FALSE,
       python |-> "python_is_2"] }

ProbeNames == {"check_docker", "check_tailscale", "check_git", "check_python"}

InitProbes ==
    /\ dockerWhere = "path" /\ daemonUp = TRUE
    /\ tailscaleInstalled = TRUE /\ tailscaleConnected = TRUE
    /\ FreshCall
    /\ EpIdle
    /\ NmIdle
    /\ PaIdle
    /\ FtIdle
    /\ LcIdle
    /\ pr_env \in Envs
    /\ pr_host \in Hosts
    /\ pr_fn \in ProbeNames
    /\ pr_done = FALSE
    /\ pr_result = None
    /\ TuIdle
    /\ UpIdle
    /\ SqIdle
    /\ ArIdle

\* One call of the probe
RunProbe ==
    /\ ~pr_done
    /\ pr_fn \in ProbeNames
    /\ pr_result' = Some(IF pr_fn = "check_docker" THEN probe_docker(pr_env, pr_host)
                         ELSE IF pr_fn = "check_tailscale" THEN probe_tailscale(pr_env, pr_host)
                         ELSE IF pr_fn = "check_git" THEN probe_git(pr_env, pr_host)
                         ELSE probe_python(pr_env, pr_host))
    /\ pr_done' = TRUE
    /\ UNCHANGED <<discoveryVars, epVars, nmVars, paVars, ftVars, lcVars, pr_env, pr_host,
                   pr_fn, tuVars, upVars, sqVars, arVars>>

NextProbes == RunProbe

SpecProbes == InitProbes /\ [][NextProbes]_vars

\* ------------------------------------------------------------------------
\* discovery.rs: get_tailscale_url against an HTTP endpoint
\* ------------------------------------------------------------------------

\* Line 160: curl is run with -s, --connect-timeout and --max-time but
\* without --fail, so its exit status is 0 as soon as a response was
\* received, whatever the HTTP status of the response
CurlExitOk(transport_ok, http_status) == transport_ok

\* Lines 159-168: what Command::output() gives for a response
CurlOf(response) ==
    [spawned |-> response.spawned,
     exit_ok |-> response.spawned /\ CurlExitOk(response.transport_ok, response.http_status),
     stdout  |-> IF response.spawned /\ response.transport_ok THEN response.body ELSE ""]

\* The comma-separated pieces the bodies are joined from
BodyPieces ==
    { "{\"hostname\":\"leader\"",
      "\"ushadow_api_url\":\"https://leader.ts.net\"",
      "\"ushadow_api_url\":\"http://leader.local\"",
      "\"ushadow_api_url\":\"https://cut",
      "\"url\":\"https://other.ts.net\"",
      "\"detail\":\"Not Found\"}",
      "\"port\":8000}" }

Bodies == {JoinTexts(b, ",") : b \in SeqsUpTo(BodyPieces, MaxSegments)}

HttpStatuses == {200, 404, 503}

Responses ==
    { NoResponse,
      [spawned |-> TRUE, transport_ok |-> FALSE, http_status |-> 0, body |-> ""] }
    \cup {[spawned |-> TRUE, transport_ok |-> TRUE, http_status |-> h, body |-> b] :
             h \in HttpStatuses, b \in Bodies}

InitResolver ==
    /\ dockerWhere = "path" /\ daemonUp = TRUE
    /\ tailscaleInstalled = TRUE /\ tailscaleConnected = TRUE
    /\ FreshCall
    /\ EpIdle
    /\ NmIdle
    /\ PaIdle
    /\ FtIdle
    /\ LcIdle
    /\ PrIdle
    /\ tu_response \in Responses
    /\ tu_done = FALSE
    /\ tu_result = None
    /\ UpIdle
    /\ SqIdle
    /\ ArIdle

\* One call of get_tailscale_url, lines 156-183
ResolveUrl ==
    /\ ~tu_done
    /\ tu_result' = get_tailscale_url(CurlOf(tu_response))
    /\ tu_done' = TRUE
    /\ UNCHANGED <<discoveryVars, epVars, nmVars, paVars, ftVars, lcVars, prVars, tu_response,
                   upVars, sqVars, arVars>>

NextResolver == ResolveUrl

SpecResolver == InitResolver /\ [][NextResolver]_vars

\* ------------------------------------------------------------------------
\* installer.rs: update_ushadow_repo (stash, pull, stash pop)
\* ------------------------------------------------------------------------

\* The most entries the git stash is let grow to
MaxStash == 3

\* Line 510, 523, 533, 545
StashPushArgs == <<"stash", "push", "-m", "ushadow-launcher-auto-stash">>

PullArgs == <<"pull", "--rebase=false">>

StashPopArgs == <<"stash", "pop">>

\* What git stash push prints and does with a clean / dirty work tree
StashRan(tree) ==
    IF tree = "clean"
    THEN Exited(TRUE, "No local changes to save\n", "")
    ELSE Exited(TRUE, "Saved working directory and index state On main: ushadow-launcher-auto-stash\n", "")

StashOutcomes(tree) ==
    { NotSpawned, Exited(FALSE, "", "fatal: not a git repository\n"), StashRan(tree) }

PullOutcomes ==
    { NotSpawned,
      Exited(FALSE, "", "fatal: unable to access remote\n"),
      Exited(FALSE, "", "fatal: Not possible to fast-forward, aborting.\n"),
      Exited(TRUE, "Already up to date.\n", ""),
      Exited(TRUE, "Updating a1b2c3d..e4f5a6b\nFast-forward\n", "") }

PopOutcomes ==
    { NotSpawned,
      Exited(FALSE, "", "error: could not restore untracked files from stash\n"),
      Exited(TRUE, "Dropped refs/stash@{0}\n", "") }

\* Lines 515-521
HadChanges(stash_output) ==
    IF stash_output.success
    THEN ~Contains(stash_output.stdout, "No local changes to save")
    ELSE FALSE

GitCommand(args, out) == [args |-> args, out |-> out]

InitUpdate ==
    /\ dockerWhere = "path" /\ daemonUp = TRUE
    /\ tailscaleInstalled = TRUE /\ tailscaleConnected = TRUE
    /\ FreshCall
    /\ EpIdle
    /\ NmIdle
    /\ PaIdle
    /\ FtIdle
    /\ LcIdle
    /\ PrIdle
    /\ TuIdle
    /\ UpIdle
    /\ SqIdle
    /\ ArIdle

upOthers == <<discoveryVars, epVars, nmVars, paVars, ftVars, lcVars, prVars, tuVars, sqVars,
              arVars>>

\* The user changes files of the checkout between two updates
EditFiles ==
    /\ up_pc = "idle"
    /\ up_tree = "clean"
    /\ up_tree' = "dirty"
    /\ UNCHANGED <<upOthers, up_stash, up_pc, up_cmds, up_had_changes, up_result>>

\* Lines 508-521: step 1, git stash push, and had_changes
RunStash ==
    /\ up_pc = "idle"
    /\ \E out \in StashOutcomes(up_tree) :
         /\ (HadChanges(out) => up_stash < MaxStash)
         /\ up_cmds' = Append(up_cmds, GitCommand(StashPushArgs, out))
         /\ IF ~out.spawned
            THEN /\ up_result' = Err("Failed to run git stash: " \o SpawnError)
                 /\ up_pc' = "done"
                 /\ up_had_changes' = FALSE
            ELSE /\ up_result' = Pending
                 /\ up_pc' = "pull"
                 /\ up_had_changes' = HadChanges(out)
         /\ up_tree' = IF out.spawned /\ out.success THEN "clean" ELSE up_tree
         /\ up_stash' = IF out.spawned /\ out.success /\ up_tree = "dirty"
                        THEN up_stash + 1 ELSE up_stash
    /\ UNCHANGED upOthers

\* Lines 523-528 and 530-541 (up to the restoring pop) and 543, 561-563
RunPull ==
    /\ up_pc = "pull"
    /\ \E out \in PullOutcomes :
         /\ up_cmds' = Append(up_cmds, GitCommand(PullArgs, out))
         /\ IF ~out.spawned
            THEN /\ up_result' = Err("Failed to run git pull: " \o SpawnError)
                 /\ up_pc' = "done"
            ELSE IF ~out.success
            THEN IF up_had_changes
                 THEN /\ up_result' = Pending
                      /\ up_pc' = "restore"
                 ELSE /\ up_result' = Err("Git pull failed: " \o out.stderr)
                      /\ up_pc' = "done"
            ELSE IF up_had_changes
                 THEN /\ up_result' = Pending
                      /\ up_pc' = "pop"
                 ELSE /\ up_result' = Ok("Updated: " \o TrimWhitespace(out.stdout))
                      /\ up_pc' = "done"
    /\ UNCHANGED <<upOthers, up_tree, up_stash, up_had_changes>>

\* Lines 533-541: the pop after a failed pull, its outcome ignored
RestoreAfterFailedPull ==
    /\ up_pc = "restore"
    /\ \E out \in PopOutcomes :
         /\ up_cmds' = Append(up_cmds, GitCommand(StashPopArgs, out))
         /\ up_tree' = IF out.spawned /\ out.success THEN "dirty" ELSE up_tree
         /\ up_stash' = IF out.spawned /\ out.success THEN up_stash - 1 ELSE up_stash
    /\ up_result' = Err("Git pull failed: " \o up_cmds[2].out.stderr)
    /\ up_pc' = "done"
    /\ UNCHANGED <<upOthers, up_had_changes>>

\* Lines 546-560: step 3, the pop after a successful pull
RunPop ==
    /\ up_pc = "pop"
    /\ \E out \in PopOutcomes :
         /\ up_cmds' = Append(up_cmds, GitCommand(StashPopArgs, out))
         /\ up_tree' = IF out.spawned /\ out.success THEN "dirty" ELSE up_tree
         /\ up_stash' = IF out.spawned /\ out.success THEN up_stash - 1 ELSE up_stash
         /\ up_result' =
               IF ~out.spawned
               THEN Err("Failed to run git stash pop: " \o SpawnError)
               ELSE IF ~out.success
               THEN Err("Update pulled but failed to restore local changes: "
                        \o out.stderr \o ". Your changes are in git stash.")
               ELSE Ok("Updated and restored local changes. "
                       \o TrimWhitespace(up_cmds[2].out.stdout))
    /\ up_pc' = "done"
    /\ UNCHANGED <<upOthers, up_had_changes>>

\* The command has returned; the next update can be asked for
UpdateReturn ==
    /\ up_pc = "done"
    /\ up_pc' = "idle"
    /\ up_cmds' = <<>>
    /\ up_had_changes' = FALSE
    /\ up_result' = Pending
    /\ UNCHANGED <<upOthers, up_tree, up_stash>>

NextUpdate ==
    \/ EditFiles
    \/ RunStash
    \/ RunPull
    \/ RestoreAfterFailedPull
    \/ RunPop
    \/ UpdateReturn

SpecUpdate == InitUpdate /\ [][NextUpdate]_vars

\* ------------------------------------------------------------------------
\* stop_environment, discover_environments and start_environment in a row
\* ------------------------------------------------------------------------

\* The containers of the runtime: the default backend and UI, the backend
\* and UI of an environment foo, the backend of an environment created with
\* the name "ushadow-foo", a numbered default backend, an infrastructure service
SequenceNames ==
    {"ushadow-backend", "ushadow-webui", "ushadow-foo-backend", "ushadow-foo-webui",
     "ushadow-ushadow-foo-backend", "ushadow-backend-1", "infra-redis-1"}

SequenceEnvNames == {"default", "foo"}

Container(name, running) == [name |-> name, running |-> running]

Worlds ==
    {w \in SeqsUpTo({Container(n, r) : n \in SequenceNames, r \in BOOLEAN}, MaxContainers) :
        \A i, j \in 1..Len(w) : i # j => w[i].name # w[j].name}

\* `docker ps -a --format "{{.Names}}|{{.Status}}|{{.Ports}}"` for one
\* container: only a running container shows its published port
PublishedPorts(name) ==
    CASE name = "ushadow-backend"             -> "0.0.0.0:8000->8000/tcp"
      [] name = "ushadow-webui"               -> "0.0.0.0:3000->5173/tcp"
      [] name = "ushadow-foo-backend"         -> "0.0.0.0:8010->8000/tcp"
      [] name = "ushadow-foo-webui"           -> "0.0.0.0:3010->5173/tcp"
      [] name = "ushadow-ushadow-foo-backend" -> "0.0.0.0:8020->8000/tcp"
      [] name = "ushadow-backend-1"           -> "0.0.0.0:8030->8000/tcp"
      [] OTHER                                -> "6379/tcp"

PsLine(c) ==
    IF c.running
    THEN Line(c.name, "Up 2 hours", PublishedPorts(c.name))
    ELSE Line(c.name, "Exited (0) 5 seconds ago", "")

\* The names `docker ps -a --format {{.Names}}` prints, with or without
\* --filter status=exited
RECURSIVE ListedNamesOf(_, _)
ListedNamesOf(world, exited_only) ==
    IF world = <<>> THEN ""
    ELSE (IF exited_only /\ world[1].running THEN "" ELSE world[1].name \o "\n")
         \o ListedNamesOf(Tail(world), exited_only)

\* The runtime after `docker stop` / `docker start` of the names
WorldAfter(world, names, running) ==
    [i \in 1..Len(world) |->
        IF \E k \in 1..Len(names) : names[k] = world[i].name
        THEN Container(world[i].name, running) ELSE world[i]]

InitSequence ==
    /\ dockerWhere = "path" /\ daemonUp = TRUE
    /\ tailscaleInstalled = TRUE /\ tailscaleConnected = TRUE
    /\ FreshCall
    /\ EpIdle
    /\ NmIdle
    /\ PaIdle
    /\ FtIdle
    /\ LcIdle
    /\ PrIdle
    /\ TuIdle
    /\ UpIdle
    /\ ArIdle
    /\ sq_world \in Worlds
    /\ sq_env \in SequenceEnvNames
    /\ sq_pc = "stop"
    /\ sq_stopped = <<>>
    /\ sq_snapshot = <<>>
    /\ sq_started = <<>>

sqOthers ==
    <<discoveryVars, epVars, nmVars, paVars, ftVars, lcVars, prVars, tuVars, upVars, arVars>>

\* stop_environment(N) returning Ok, docker.rs lines 227-284: the listing of
\* all containers, the filter, the grouped stop that exits 0
StopSucceeds ==
    /\ sq_pc = "stop"
    /\ LET containers ==
               Filter("stop_environment", sq_env, Lines(ListedNamesOf(sq_world, FALSE)))
       IN  /\ sq_stopped' = containers
           /\ sq_world' = WorldAfter(sq_world, containers, FALSE)
    /\ sq_pc' = "discover"
    /\ UNCHANGED <<sqOthers, sq_env, sq_snapshot, sq_started>>

RECURSIVE BuildAll(_)
BuildAll(backends) ==
    IF backends = <<>> THEN <<>>
    ELSE <<BuildEnvironment(backends[1][1], backends[1][2], None)>> \o BuildAll(Tail(backends))

\* discover_environments with docker up and no mesh URL, discovery.rs lines
\* 33-137
DiscoverAfterStop ==
    /\ sq_pc = "discover"
    /\ LET lines == [i \in 1..Len(sq_world) |-> PsLine(sq_world[i])]
           acc   == ParseLoop(lines, EmptyAcc)
       IN  sq_snapshot' = BuildAll(acc.env_backends)
    /\ sq_pc' = "start"
    /\ UNCHANGED <<sqOthers, sq_world, sq_env, sq_stopped, sq_started>>

\* start_environment(N) with a grouped start that exits 0, docker.rs lines
\* 168-223
StartAfterDiscover ==
    /\ sq_pc = "start"
    /\ LET containers ==
               Filter("start_environment", sq_env, Lines(ListedNamesOf(sq_world, TRUE)))
       IN  /\ sq_started' = containers
           /\ sq_world' = WorldAfter(sq_world, containers, TRUE)
    /\ sq_pc' = "end"
    /\ UNCHANGED <<sqOthers, sq_env, sq_stopped, sq_snapshot>>

NextSequence == StopSucceeds \/ DiscoverAfterStop \/ StartAfterDiscover

SpecSequence == InitSequence /\ [][NextSequence]_vars

\* ------------------------------------------------------------------------
\* The port arithmetic of the allocator, create_environment and discovery
\* ------------------------------------------------------------------------

\* u16 subtraction
SubU16(a, b) == (a - b) % 65536

\* The backend ports extract_port can hand to discovery: any u16
BackendPorts == {0, 3000, 4999, 5000, 7999, 8000, 8010, 9000, 65535}

arOthers ==
    <<discoveryVars, epVars, nmVars, paVars, ftVars, lcVars, prVars, tuVars, upVars, sqVars>>

\* create_environment line 459 on the pair find_available_ports returned
PortOffset ==
    /\ pa_fn = "find_available_ports"
    /\ pa_pc = "done"
    /\ ar_port_offset = None
    /\ ar_port_offset' = Some(SubU16(pa_result[1][1], 8000))
    /\ UNCHANGED <<arOthers, ar_backend_port, ar_done, ar_result>>

\* discover_environments lines 108-112 on a backend port extract_port
\* returned, or on the one an environment was just created with
DeriveWebui ==
    /\ pa_pc = "done"
    /\ ~ar_done
    /\ \E backend_port \in BackendPorts \cup
              (IF pa_fn = "find_available_ports" THEN {pa_result[1][1]} ELSE {}) :
          /\ ar_backend_port' = backend_port
          /\ ar_result' = WebuiPort(backend_port)
    /\ ar_done' = TRUE
    /\ UNCHANGED <<arOthers, ar_port_offset>>

NextArith ==
    \/ CheckPortsDefaults
    \/ CheckPortsProbe
    \/ FindPortsProbe
    \/ PortOffset
    \/ DeriveWebui

SpecArith == InitPorts /\ [][NextArith]_vars

\* ------------------------------------------------------------------------
\* Claims
\* ------------------------------------------------------------------------

Returned == pc = "done"

ReturnedOk == pc = "done" /\ result.kind = "Ok"

\* The container records of the listed output, in listing order
ListedRecords ==
    LET kept == {n \in 1..Len(stdout) : ParseLine(stdout[n]) # None}
    IN  [n \in kept |-> ParseLine(stdout[n])[1]]

\* C1: discover_environments never returns an error, whatever the state of
\* the container runtime; it degrades to an empty snapshot instead.
C1_NeverReturnsErr == Returned => result.kind = "Ok"

\* C2: when the probe reports Docker not installed or not running, the call
\* returns the empty snapshot with docker_ok = FALSE and tailscale_ok =
\* (installed and connected), and issues no container-list command.
C2_DegradesWithoutListing ==
    (Returned /\ ~(docker_probe[1] /\ docker_probe[2])) =>
        /\ result = Ok([infrastructure |-> <<>>,
                        environments   |-> <<>>,
                        docker_ok      |-> FALSE,
                        tailscale_ok   |-> tailscaleInstalled /\ tailscaleConnected])
        /\ psIssued = 0

C2_Witness ==
    /\ Returned
    /\ docker_probe = <<TRUE, FALSE>>
    /\ result.kind = "Ok"
    /\ result.value.tailscale_ok
    /\ ~result.value.docker_ok

\* C3: in every returned snapshot the environment names are unique, also when
\* two running backends normalise to the same name.
C3_EnvNamesUnique ==
    ReturnedOk =>
        LET envs == result.value.environments
        IN  \A i, j \in 1..Len(envs) : envs[i].name = envs[j].name => i = j

\* C4: in every returned snapshot no two InfraService entries share a key,
\* and the entry of a key carries the running flag and the ports of the
\* first listed container matching that key.
C4_InfraFirstWins ==
    ReturnedOk =>
        LET infra == result.value.infrastructure
            recs == ListedRecords
        IN  /\ \A i, j \in 1..Len(infra) : infra[i].name = infra[j].name => i = j
            /\ \A i \in 1..Len(infra) :
                  LET matching == {n \in DOMAIN recs : InfraMatches(recs[n].name, infra[i].name)}
                  IN  /\ matching # {}
                      /\ LET first == CHOOSE n \in matching : \A m \in matching : n <= m
                         IN  /\ infra[i].running = recs[first].is_running
                             /\ infra[i].ports = recs[first].ports

C4_Witness ==
    /\ ReturnedOk
    /\ Len(result.value.infrastructure) = 1
    /\ Len(stdout) = 2
    /\ \A n \in 1..2 : ParseLine(stdout[n]) # None
                       /\ InfraMatches(ParseLine(stdout[n])[1].name, "redis")
    /\ ParseLine(stdout[1])[1].is_running # ParseLine(stdout[2])[1].is_running

\* The environment-backend conditions as C5 words them
C5_Qualifies(rec) ==
    /\ Contains(rec.name, "backend")
    /\ StartsWith(rec.name, "ushadow")
    /\ ~Contains(rec.name, "chronicle")
    /\ Contains(rec.status, "Up")
    /\ rec.ports # None
    /\ extract_port(rec.ports[1]) # None

\* C5: every environment of a snapshot has running = TRUE and stems from a
\* listed container that is a backend of the application, not of the
\* excluded product, is Up and has a decodable port; the listed containers
\* that fail one of these yield no environment.
C5_OnlyRunningBackends ==
    ReturnedOk =>
        LET envs == result.value.environments
            recs == ListedRecords
        IN  /\ \A i \in 1..Len(envs) :
                  /\ envs[i].running = TRUE
                  /\ \E n \in DOMAIN recs :
                        /\ C5_Qualifies(recs[n])
                        /\ envs[i].name = EnvName(recs[n].name)
                        /\ envs[i].backend_port = extract_port(recs[n].ports[1])[1]
            /\ Len(envs) = Cardinality({n \in DOMAIN recs : C5_Qualifies(recs[n])})

C5_Witness ==
    /\ ReturnedOk
    /\ Len(result.value.environments) = 1
    /\ Len(stdout) = 2
    /\ \E n \in DOMAIN ListedRecords :
          /\ IsEnvBackend(ListedRecords[n].name)
          /\ ~ListedRecords[n].is_running
          /\ ListedRecords[n].ports # None
          /\ extract_port(ListedRecords[n].ports[1]) # None

\* C6: the container "ushadow-backend" yields the name "default"; every
\* other backend container "ushadow-<n>-backend" yields exactly <n>.
C6_NameIsTheInfix ==
    (nm_done /\ nm_result[1].is_backend) =>
        /\ ContainerName(nm_tokens) = "ushadow-backend"
              => nm_result[1].env_name = "default"
        /\ (/\ Len(nm_tokens) >= 3
            /\ nm_tokens[1] = "ushadow"
            /\ nm_tokens[Len(nm_tokens)] = "backend")
              => nm_result[1].env_name
                    = ContainerName(SubSeq(nm_tokens, 2, Len(nm_tokens) - 1))

\* C7: for every environment of a snapshot, webui_port is backend_port - 5000
\* when backend_port >= 8000 and absent otherwise.
C7_WebuiPortOffset ==
    ReturnedOk =>
        \A i \in 1..Len(result.value.environments) :
            LET e == result.value.environments[i]
            IN  IF e.backend_port >= 8000
                THEN e.webui_port = <<e.backend_port - 5000>>
                ELSE e.webui_port = <<>>

C7_Witness ==
    /\ ReturnedOk
    /\ \E i, j \in 1..Len(result.value.environments) :
          /\ result.value.environments[i].backend_port = 8050
          /\ result.value.environments[i].webui_port = <<3050>>
          /\ result.value.environments[j].backend_port = 500
          /\ result.value.environments[j].webui_port = <<>>

\* C8 as claimed: the local URL of every environment is
\* "http://localhost:<backend_port>", whether or not a UI port was derived.
C8_LocalUrlIsBackendPort ==
    ReturnedOk =>
        \A i \in 1..Len(result.value.environments) :
            LET e == result.value.environments[i]
            IN  e.localhost_url = "http://localhost:" \o FmtInt(e.backend_port)

\* C8 as amended: the local URL of every environment is
\* "http://localhost:<webui_port>" when a UI port was derived and
\* "http://localhost:<backend_port>" when none was.
C8_LocalUrlPrefersWebui ==
    ReturnedOk =>
        \A i \in 1..Len(result.value.environments) :
            LET e == result.value.environments[i]
            IN  e.localhost_url =
                    "http://localhost:"
                        \o FmtInt(IF e.webui_port # <<>> THEN e.webui_port[1]
                                  ELSE e.backend_port)

C8_Witness ==
    /\ ReturnedOk
    /\ \E i, j \in 1..Len(result.value.environments) :
          /\ result.value.environments[i].backend_port = 8050
          /\ result.value.environments[i].localhost_url = "http://localhost:3050"
          /\ result.value.environments[j].backend_port = 500
          /\ result.value.environments[j].localhost_url = "http://localhost:500"

\* C9: for every ports string whose first comma-segment is a valid mapping
\* "H:P->C/proto" with P in 0..65535, extract_port returns P, whatever the
\* remaining segments hold.
C9_FirstSegmentWins ==
    (ep_done /\ ep_segments[1].valid) => ep_result = <<ep_segments[1].port>>

C9_Witness ==
    /\ ep_done
    /\ Len(ep_segments) = 2
    /\ ep_segments[1].valid
    /\ ep_segments[2].valid
    /\ ep_segments[2].port # ep_segments[1].port
    /\ ep_result = <<ep_segments[1].port>>

\* C10: for the empty string and for every text without "->", extract_port
\* returns none.
C10_NoArrowGivesNone ==
    (ep_done /\ ~Contains(PortsString(ep_segments), "->")) => ep_result = <<>>

\* The offsets 0, 10, ..., 1000 at which both ports of the pair are free
FreeOffsets(occupied) ==
    {o \in {10 * i : i \in 0..100} : (8000 + o) \notin occupied /\ (3000 + o) \notin occupied}

MinOf(S) == CHOOSE m \in S : \A n \in S : m <= n

PortsDone == pa_pc = "done"

\* C11: when some offset in 0, 10, ..., 1000 has both ports free, check_ports
\* and find_available_ports(8000, 3000) report the smallest such offset:
\* (TRUE, TRUE, 0) resp. (8000, 3000) when both defaults are free.
C11_SmallestFreeOffset ==
    (PortsDone /\ FreeOffsets(pa_occupied) # {}) =>
        LET m == MinOf(FreeOffsets(pa_occupied))
            r == pa_result[1]
        IN  IF pa_fn = "check_ports"
            THEN /\ r[3] = m
                 /\ r[1] = (8000 \notin pa_occupied)
                 /\ r[2] = (3000 \notin pa_occupied)
            ELSE r = <<8000 + m, 3000 + m>>

C11_Witness ==
    /\ PortsDone
    /\ pa_fn = "find_available_ports"
    /\ 3000 \in pa_occupied
    /\ 8000 \notin pa_occupied
    /\ pa_result[1] = <<8010, 3010>>

\* C12: when no offset in 0, 10, ..., 1000 has both ports free,
\* find_available_ports(8000, 3000) returns (8000, 3000) after 101 probes; it
\* never probes more than 101 offsets, none above 1000 and none twice, so
\* the loop ends.
C12_GivesUpWithDefaults ==
    pa_fn = "find_available_ports" =>
        /\ Len(pa_probed) <= 101
        /\ \A i \in 1..Len(pa_probed) : pa_probed[i] <= 1000
        /\ \A i, j \in 1..Len(pa_probed) : i < j => pa_probed[i] < pa_probed[j]
        /\ pa_pc = "loop" => pa_offset <= 1000
        /\ pa_pc # "done" => Len(pa_probed) < 101
        /\ (PortsDone /\ FreeOffsets(pa_occupied) = {}) =>
              /\ pa_result[1] = <<8000, 3000>>
              /\ Len(pa_probed) = 101

C12_Witness ==
    /\ PortsDone
    /\ pa_fn = "find_available_ports"
    /\ FreeOffsets(pa_occupied) = {}
    /\ Len(pa_probed) = 101
    /\ pa_result[1] = <<8000, 3000>>

IsNumber(text) == Len(text) > 0 /\ \A i \in 1..Len(text) : IsDigit(CharAt(text, i))

\* One of the five role names, alone or followed by "-" and a number
RoleNameOrNumbered(name) ==
    \E i \in 1..Len(DefaultRoleNames) :
        \/ name = DefaultRoleNames[i]
        \/ /\ StartsWith(name, DefaultRoleNames[i] \o "-")
           /\ IsNumber(SubSeq(name, Len(DefaultRoleNames[i]) + 2, Len(name)))

\* C14: for every environment name and container name, the filter of
\* start_environment accepts the name exactly when the filter of
\* stop_environment accepts it.
C14_SameFilter ==
    ft_done => (ft_result[1].start <=> ft_result[1].stop)

\* C15: for "default" a container is selected (by start or by stop) only if
\* its name is ushadow-<role> or ushadow-<role>-<number>; for another name n
\* exactly the containers whose name starts with ushadow-<n>- are selected.
C15_FilterMapping ==
    ft_done =>
        IF ft_env = "default"
        THEN (ft_result[1].start \/ ft_result[1].stop) => RoleNameOrNumbered(ft_name)
        ELSE /\ ft_result[1].start <=> StartsWith(ft_name, "ushadow-" \o ft_env \o "-")
             /\ ft_result[1].stop <=> StartsWith(ft_name, "ushadow-" \o ft_env \o "-")

LcDone == lc_pc = "done"

EnvironmentOps == {"start_environment", "stop_environment"}

\* The listing of this call succeeded and none of its lines passes the
\* filter of the operation
ListedNothingMatching ==
    /\ lc_call.op \in EnvironmentOps
    /\ Len(lc_cmds) >= 1
    /\ lc_cmds[1].out.spawned /\ lc_cmds[1].out.success
    /\ \A i \in 1..Len(Lines(lc_cmds[1].out.stdout)) :
          IF lc_call.op = "start_environment"
          THEN ~StartSelects(lc_call.env_name, Lines(lc_cmds[1].out.stdout)[i])
          ELSE ~StopSelects(lc_call.env_name, Lines(lc_cmds[1].out.stdout)[i])

\* C13: when the listing holds no container matching the filter of the
\* name, start_environment and stop_environment return Ok and run nothing but
\* the listing: no docker start / docker stop.
C13_NothingToStartIsOk ==
    ListedNothingMatching =>
        /\ LcDone
        /\ lc_result.kind = "Ok"
        /\ Len(lc_cmds) = 1
        /\ lc_cmds[1].args[1] = "ps"

C13_Witness ==
    /\ LcDone
    /\ ListedNothingMatching
    /\ lc_call.op = "start_environment"
    /\ lc_call.env_name = "default"
    /\ lc_cmds[1].out.stdout = "postgres\n"
    /\ lc_result = Ok("No stopped containers found for environment 'default'")

\* C16: restart_infrastructure with a root runs "compose down" and then
\* "compose up", whatever "down" did, and returns Err exactly when "up" was
\* not spawned or exited non-zero.
C16_RestartSurfacesOnlyUp ==
    (lc_call.op = "restart_infrastructure" /\ lc_root # None) =>
        /\ lc_pc = "down" => lc_cmds = <<>>
        /\ lc_pc = "compose" =>
              /\ Len(lc_cmds) = 1
              /\ lc_cmds[1].args = ComposeDownArgs
        /\ lc_pc = "done" =>
              /\ Len(lc_cmds) = 2
              /\ lc_cmds[1].args = ComposeDownArgs
              /\ lc_cmds[2].args = ComposeUpArgs
              /\ lc_result.kind \in {"Ok", "Err"}
              /\ lc_result.kind = "Err" <=>
                    ~(lc_cmds[2].out.spawned /\ lc_cmds[2].out.success)

C16_Witness ==
    /\ LcDone
    /\ lc_call.op = "restart_infrastructure"
    /\ Len(lc_cmds) = 2
    /\ lc_cmds[1].out.spawned /\ ~lc_cmds[1].out.success
    /\ lc_cmds[2].out.success
    /\ lc_result = Ok("Infrastructure restarted")

RootedOps ==
    {"start_infrastructure", "stop_infrastructure", "restart_infrastructure",
     "create_environment"}

\* C17: a rooted command called with no project root is done at once with
\* Err("Project root not set") and no command run; create_environment with
\* the root /tmp (no start-dev.sh there) is done at once with another error
\* that names start-dev.sh, no port probed and no command run.
C17_MissingPreconditions ==
    /\ (lc_call.op \in RootedOps /\ lc_root = None) =>
          /\ LcDone
          /\ lc_result = Err("Project root not set")
          /\ lc_cmds = <<>>
          /\ pa_probed = <<>>
    /\ (lc_call.op = "create_environment" /\ lc_root = Some("/tmp")) =>
          /\ lc_pc \in {"drop", "check_script", "done"}
          /\ LcDone =>
                /\ lc_result.kind = "Err"
                /\ lc_result.msg # "Project root not set"
                /\ Contains(lc_result.msg, "start-dev.sh not found")
          /\ lc_cmds = <<>>
          /\ pa_probed = <<>>
          /\ pa_pc = "idle"

C17_Witness ==
    /\ LcDone
    /\ lc_call.op = "create_environment"
    /\ lc_root = Some("/tmp")
    /\ lc_result.kind = "Err"
    /\ lc_cmds = <<>>

\* C18: once create_environment has a root with start-dev.sh, it runs the
\* script exactly once, with ENV_NAME the requested name, PORT_OFFSET the
\* decimal text of (allocated backend port - 8000), and the flag --prod
\* exactly when mode is Some("prod"), --dev otherwise.
C18_ScriptInvocation ==
    (lc_call.op = "create_environment" /\ lc_root = Some("/repo")) =>
        /\ lc_pc = "find_ports" => lc_cmds = <<>>
        /\ lc_pc = "done" =>
              /\ Len(lc_cmds) = 1
              /\ lc_cmds[1].program = "bash"
              /\ lc_cmds[1].args[1] = "start-dev.sh"
              /\ lc_cmds[1].env.ENV_NAME = lc_call.env_name
              /\ IsNumber(lc_cmds[1].env.PORT_OFFSET)
              /\ DecimalValue(lc_cmds[1].env.PORT_OFFSET) = pa_result[1][1] - 8000
              /\ pa_result[1][1] - 8000 \in
                    IF FreeOffsets(pa_occupied) = {} THEN {0}
                    ELSE {MinOf(FreeOffsets(pa_occupied))}
              /\ lc_cmds[1].args[3] =
                    IF lc_call.mode = Some("prod") THEN "--prod" ELSE "--dev"

C18_Witness ==
    /\ LcDone
    /\ lc_call.op = "create_environment"
    /\ lc_call.mode = Some("PROD")
    /\ Len(lc_cmds) = 1
    /\ lc_cmds[1].args = <<"start-dev.sh", "--quick", "--dev">>
    /\ lc_cmds[1].env.ENV_NAME = "foo"
    /\ lc_cmds[1].env.PORT_OFFSET = "10"

\* The last line of text that is not empty, "" when there is none
LastNonEmptyLine(text) ==
    LET ls  == Lines(text)
        idx == {i \in 1..Len(ls) : ls[i] # ""}
    IN  IF idx = {} THEN "" ELSE ls[CHOOSE i \in idx : \A j \in idx : j <= i]

\* C19: when start-dev.sh exits non-zero, the error of create_environment
\* ends with the last non-empty line of the two streams taken together
\* (in either order).
C19_LastNonEmptyLine ==
    (/\ LcDone
     /\ lc_call.op = "create_environment"
     /\ Len(lc_cmds) = 1
     /\ lc_cmds[1].out.spawned /\ ~lc_cmds[1].out.success) =>
        LET so == lc_cmds[1].out.stdout
            se == lc_cmds[1].out.stderr
        IN  \/ lc_result = Err("Failed to start environment: " \o LastNonEmptyLine(so \o se))
            \/ lc_result = Err("Failed to start environment: " \o LastNonEmptyLine(se \o so))

\* C20: in start/stop_environment and start/stop/restart_infrastructure,
\* every command that ran and exited non-zero (the ignored "down" of restart
\* aside) makes the operation return an error holding that command's stderr.
C20_StderrVerbatim ==
    (LcDone /\ lc_call.op \in (EnvironmentOps \cup RootedOps) \ {"create_environment"}) =>
        \A i \in 1..Len(lc_cmds) :
            (/\ lc_cmds[i].out.spawned
             /\ ~lc_cmds[i].out.success
             /\ ~(lc_call.op = "restart_infrastructure" /\ i = 1)) =>
                /\ lc_result.kind = "Err"
                /\ Contains(lc_result.msg, lc_cmds[i].out.stderr)

\* C21: a rooted lifecycle call holds the guard of project_root only
\* between its read and its drop, with no external command, script check or
\* port probe made meanwhile; every command of the call, and the script check,
\* uses the root captured under the guard, whatever set_project_root does to
\* the shared root during the call.
C21_CapturedRootIsUsed ==
    /\ GuardHeld =>
          /\ lc_call.op \in RootedOps
          /\ lc_root = project_root
          /\ lc_cmds = <<>>
          /\ lc_checked = None
          /\ pa_probed = <<>>
    /\ (lc_call.op \in RootedOps /\ lc_root # None) =>
          /\ \A i \in 1..Len(lc_cmds) : lc_cmds[i].dir = lc_root[1]
          /\ lc_checked \in {None, lc_root}
    /\ (lc_call.op \in RootedOps /\ lc_root = None) =>
          /\ lc_cmds = <<>>
          /\ lc_checked = None

C21_Witness ==
    /\ LcDone
    /\ lc_call.op = "restart_infrastructure"
    /\ lc_root = Some("/repo")
    /\ project_root = Some("/tmp")
    /\ Len(lc_cmds) = 2
    /\ lc_cmds[1].dir = "/repo"
    /\ lc_cmds[2].dir = "/repo"

MockSwitchOn == pr_env.MOCK_MODE = Some("true")

IsTrue(v) == v = Some("true")

\* What the mock variables alone say the probe returns
MockAnswer(fn, env) ==
    IF fn = "check_docker"
    THEN <<IsTrue(env.MOCK_DOCKER_INSTALLED), IsTrue(env.MOCK_DOCKER_RUNNING),
           IF IsTrue(env.MOCK_DOCKER_INSTALLED)
           THEN Some("Docker version 24.0.0 (MOCKED)") ELSE None>>
    ELSE IF fn = "check_tailscale"
    THEN <<IsTrue(env.MOCK_TAILSCALE_INSTALLED), IsTrue(env.MOCK_TAILSCALE_INSTALLED),
           IF IsTrue(env.MOCK_TAILSCALE_INSTALLED) THEN Some("1.56.0 (MOCKED)") ELSE None>>
    ELSE IF fn = "check_git"
    THEN <<IsTrue(env.MOCK_GIT_INSTALLED),
           IF IsTrue(env.MOCK_GIT_INSTALLED)
           THEN Some("git version 2.40.0 (MOCKED)") ELSE None>>
    ELSE <<IsTrue(env.MOCK_PYTHON_INSTALLED),
           IF IsTrue(env.MOCK_PYTHON_INSTALLED)
           THEN Some("Python 3.11.0 (MOCKED)") ELSE None>>

\* C22: with MOCK_MODE = "true", each of the four probes returns what the
\* mock variables say, whatever the host has, and spawns no process.
C22_MockModeBypassesProcesses ==
    (pr_done /\ MockSwitchOn) =>
        /\ pr_result[1].spawned = <<>>
        /\ pr_result[1].value = MockAnswer(pr_fn, pr_env)

C22_Witness ==
    /\ pr_done
    /\ MockSwitchOn
    /\ pr_fn = "check_docker"
    /\ pr_host.docker = "none"
    /\ pr_env.MOCK_DOCKER_INSTALLED = Some("true")
    /\ pr_env.MOCK_DOCKER_RUNNING = None
    /\ pr_result[1].value = <<TRUE, FALSE, Some("Docker version 24.0.0 (MOCKED)")>>
    /\ pr_result[1].spawned = <<>>

\* Some comma-piece of the body names ushadow_api_url and holds an https://
\* URL closed by a double-quote
HasClosedHttpsUrl(body) ==
    \E i \in 1..Len(Split(body, ",")) :
        LET piece == Split(body, ",")[i]
            start == Find(piece, "https://")
        IN  /\ Contains(piece, "ushadow_api_url")
            /\ start # 0
            /\ Contains(SubSeq(piece, start, Len(piece)), "\"")

\* C23: get_tailscale_url returns no URL when curl cannot be spawned, the
\* transfer fails, the HTTP status is not a success (2xx), or the body has no
\* ushadow_api_url piece with a closed https:// URL.
C23_OnlySuccessYieldsUrl ==
    (/\ tu_done
     /\ \/ ~tu_response.spawned
        \/ ~tu_response.transport_ok
        \/ tu_response.http_status \notin 200..299
        \/ ~HasClosedHttpsUrl(tu_response.body)) => tu_result = None

\* The keys of the entries the infrastructure loop made for the name
ClassifiedKeys == {nm_result[1].infra[i].name : i \in 1..Len(nm_result[1].infra)}

TableKeys == {INFRA_PATTERNS[k][1] : k \in 1..Len(INFRA_PATTERNS)}

\* C24: a container is classified under the key k exactly when its name is
\* k, ends with "-k" or ends with "-k-1"; no name is classified under two of
\* the keys mongo, redis, neo4j, qdrant.
C24_InfraRule ==
    nm_done =>
        /\ TableKeys = {"mongo", "redis", "neo4j", "qdrant"}
        /\ \A k \in TableKeys :
              k \in ClassifiedKeys <=>
                 \/ ContainerName(nm_tokens) = k
                 \/ EndsWith(ContainerName(nm_tokens), "-" \o k)
                 \/ EndsWith(ContainerName(nm_tokens), "-" \o k \o "-1")
        /\ Len(nm_result[1].infra) <= 1

C24_Witness ==
    /\ nm_done
    /\ nm_tokens = <<"mongo", "redis", "1">>
    /\ ClassifiedKeys = {"redis"}

\* C26: every container name the environment-backend rule accepts is
\* accepted by the filters start_environment and stop_environment build for
\* the environment name discovery derives from it.
C26_DerivedNameSelectsBackend ==
    (nm_done /\ nm_result[1].is_backend) =>
        /\ nm_result[1].start
        /\ nm_result[1].stop

\* C27: no container name is selected by the stop filters of two different
\* environment names, nor by the start filters of two different names.
C27_FiltersDisjoint ==
    ft_done =>
        /\ ft_result[1].stop => ft_result[1].stop_of = {ft_env}
        /\ ft_result[1].start => ft_result[1].start_of = {ft_env}

\* C28: the pair find_available_ports hands to create_environment has one
\* offset, a multiple of 10 in 0..1000, on every path; the UI port discovery
\* derives from the backend port (backend_port - 5000) is the allocated one.
C28_CommonOffset ==
    (lc_call.op = "create_environment" /\ pa_pc = "done") =>
        LET backend_port == pa_result[1][1]
            webui_port   == pa_result[1][2]
        IN  /\ webui_port - 3000 = backend_port - 8000
            /\ backend_port - 8000 \in {10 * i : i \in 0..100}
            /\ WebuiPort(backend_port) = Some(webui_port)
            /\ \A i \in 1..Len(lc_cmds) :
                  DecimalValue(lc_cmds[i].env.PORT_OFFSET) = webui_port - 3000

C28_Witness ==
    /\ LcDone
    /\ lc_call.op = "create_environment"
    /\ pa_result = Some(<<8010, 3010>>)
    /\ Len(lc_cmds) = 1
    /\ lc_cmds[1].env.PORT_OFFSET = "10"
    /\ lc_result.kind = "Ok"

\* The stash step of this call put local changes on the stash
Stashed ==
    /\ Len(up_cmds) >= 1
    /\ up_cmds[1].out.spawned /\ up_cmds[1].out.success
    /\ ~Contains(up_cmds[1].out.stdout, "No local changes to save")

PopAttempted == \E i \in 1..Len(up_cmds) : up_cmds[i].args = <<"stash", "pop">>

\* C29: when update_ushadow_repo returns, a git stash pop has been run if
\* the stash step stashed changes (whatever the pull did, a pull that could
\* not be spawned included) and none has been run if nothing was stashed; the
\* commands run are stash, pull, pop in that order.
C29_StashedChangesArePopped ==
    /\ \A i \in 1..Len(up_cmds) :
          up_cmds[i].args[1] = <<"stash", "pull", "stash">>[i]
    /\ Len(up_cmds) <= 3
    /\ PopAttempted => Stashed
    /\ (up_pc = "done" /\ Stashed) => PopAttempted

SnapshotNames == {sq_snapshot[i].name : i \in 1..Len(sq_snapshot)}

\* C25: after stop_environment(N) stopped at least one container and every
\* container it selected is exited, the next snapshot has no environment
\* named N, and the following start_environment(N) starts every container
\* that stop stopped.
C25_StoppedIsInvisibleButStartable ==
    sq_stopped # <<>> =>
        /\ sq_pc \in {"start", "end"} => sq_env \notin SnapshotNames
        /\ sq_pc = "end" =>
              \A i \in 1..Len(sq_stopped) :
                  \E k \in 1..Len(sq_started) : sq_started[k] = sq_stopped[i]

\* C30: no 16-bit port arithmetic wraps or underflows: 8000 + offset and
\* 3000 + offset stay within 0..65535 for every offset the loops of check_ports
\* and find_available_ports(8000, 3000) reach, the pair returned is the
\* unwrapped sum, backend_port - 8000 in create_environment is never negative,
\* and discovery computes backend_port - 5000 only when backend_port >= 8000.
C30_NoPortArithmeticWraps ==
    /\ \A i \in 1..Len(pa_probed) :
          /\ 8000 + pa_probed[i] \in 0..65535
          /\ 3000 + pa_probed[i] \in 0..65535
    /\ pa_offset + 10 \in 0..65535
    /\ (pa_fn = "find_available_ports" /\ pa_pc = "done") =>
          /\ pa_result[1][1] - 8000 \in 0..1000
          /\ pa_result[1][2] = 3000 + (pa_result[1][1] - 8000)
          /\ pa_result[1][2] \in 0..65535
          /\ ar_port_offset # None => ar_port_offset[1] = pa_result[1][1] - 8000
    /\ (pa_fn = "check_ports" /\ pa_pc = "done") =>
          /\ 8000 + pa_result[1][3] \in 0..65535
          /\ 3000 + pa_result[1][3] \in 0..65535
    /\ ar_done =>
          IF ar_backend_port >= 8000
          THEN /\ ar_result = Some(ar_backend_port - 5000)
               /\ ar_backend_port - 5000 \in 0..65535
          ELSE ar_result = None

\* The allocator probed every offset up to 1000 and returned the pair at
\* offset 1000, create_environment computed port_offset 1000, and discovery
\* left a backend port below 8000 without a UI port
C30_Witness ==
    /\ pa_fn = "find_available_ports"
    /\ pa_pc = "done"
    /\ Len(pa_probed) = 101
    /\ pa_result = Some(<<9000, 4000>>)
    /\ ar_port_offset = Some(1000)
    /\ ar_done
    /\ ar_backend_port = 7999
    /\ ar_result = None

====
